---- MODULE Spec2Model ----
(***************************************************************************)
(* Model of the cloud-security-posture-dashboard repository:               *)
(*   - remediation/aws/remediate.py   (fixers, RemediationEngine, main)    *)
(*   - scripts/scanning/aggregate_findings.py (FindingsAggregator)         *)
(*                                                                         *)
(* Text values.  A Python str is modelled as a sequence of tokens.  Where  *)
(* letter case matters (severity, the confirmation answer) the tokens are  *)
(* single characters; elsewhere a token is an indivisible piece of text.   *)
(* String concatenation / f-string interpolation is \o, a substring test   *)
(* for a tag that is one token is membership of that token.                *)
(***************************************************************************)
EXTENDS Integers, Sequences, FiniteSets, TLC

\* ------------------------------------------------------------------------
\* Bounds of the model
\* ------------------------------------------------------------------------

\* longest findings list held by an aggregated findings file
MaxFindings == 2

\* ------------------------------------------------------------------------
\* Python values
\* ------------------------------------------------------------------------

\* the value dict.get() yields for an absent key; never a text of the data
None == <<"<absent>">>

\* the empty str
Empty == <<>>

\* truthiness of an optional str: None and '' are falsy
Truthy(v) == v # None /\ v # Empty

Get_NoDefault(v, default) == v

\* dict.get(key, default) on a value that may be absent
Get(v, default) == IF v = None THEN default ELSE v

\* str(v) as an f-string interpolates it
Fmt(v) == IF v = None THEN <<"None">> ELSE v

\* one text made of one token
T(tok) == <<tok>>

UpperChars == {"A","B","C","D","E","F","G","H","I","J","K","L","M",
               "N","O","P","Q","R","S","T","U","V","W","X","Y","Z"}

LowerOf == [c \in UpperChars |->
              CASE c = "A" -> "a" [] c = "B" -> "b" [] c = "C" -> "c"
                [] c = "D" -> "d" [] c = "E" -> "e" [] c = "F" -> "f"
                [] c = "G" -> "g" [] c = "H" -> "h" [] c = "I" -> "i"
                [] c = "J" -> "j" [] c = "K" -> "k" [] c = "L" -> "l"
                [] c = "M" -> "m" [] c = "N" -> "n" [] c = "O" -> "o"
                [] c = "P" -> "p" [] c = "Q" -> "q" [] c = "R" -> "r"
                [] c = "S" -> "s" [] c = "T" -> "t" [] c = "U" -> "u"
                [] c = "V" -> "v" [] c = "W" -> "w" [] c = "X" -> "x"
                [] c = "Y" -> "y" [] c = "Z" -> "z"]

\* str.lower(): every upper-case letter becomes its lower-case letter
Lower(s) == [i \in 1..Len(s) |-> IF s[i] \in UpperChars THEN LowerOf[s[i]] ELSE s[i]]

\* `tag in text` for a tag that is a single token
Contains(text, tag) == \E i \in 1..Len(text) : text[i] = tag

\* ------------------------------------------------------------------------
\* Findings (the canonical record, fields the remediation path reads)
\* ------------------------------------------------------------------------

Finding(fid, res, acct, reg, sev) ==
    [finding_id |-> fid, resource |-> res, account_id |-> acct,
     region |-> reg, severity |-> sev]

\* what subprocess.run returned: exit status and captured stderr
Completed(rc, err) == [returncode |-> rc, stderr |-> err]

\* what a fixer hands back: the (success, message) pair, and the argv of
\* every external command it executed
FixerReturn(ok, msg, ran) == [success |-> ok, message |-> msg, ran |-> ran]

\* ------------------------------------------------------------------------
\* Fixers (remediate.py 57-250).  `outcome` is what subprocess.run returns
\* if the fixer gets as far as executing its command.
\* ------------------------------------------------------------------------

CannotDetermineBucket == T("Cannot determine bucket name from finding")

\* fix_s3_default_encryption whose dry-run message lost its marker
fix_s3_default_encryption_NoMarker(finding, dry_run, outcome) ==
    LET bucket_name == finding.resource
        command == << T("aws"), T("s3api"), T("put-bucket-encryption"),
                      T("--bucket"), bucket_name,
                      T("--server-side-encryption-configuration"),
                      T("{Rules:[{ApplyServerSideEncryptionByDefault:{SSEAlgorithm:AES256}}]}") >>
    IN  IF ~Truthy(bucket_name) \/ bucket_name = finding.account_id
        THEN FixerReturn(FALSE, CannotDetermineBucket, <<>>)
        ELSE IF dry_run
        THEN FixerReturn(TRUE,
                 T("Would enable AES-256 encryption on bucket:") \o bucket_name,
                 <<>>)
        ELSE IF outcome.returncode = 0
        THEN FixerReturn(TRUE,
                 T("Successfully enabled encryption on bucket:") \o bucket_name,
                 <<command>>)
        ELSE FixerReturn(FALSE,
                 T("Failed to enable encryption on") \o bucket_name \o T(":") \o outcome.stderr,
                 <<command>>)

fix_s3_default_encryption(finding, dry_run, outcome) ==
    LET bucket_name == finding.resource
        command == << T("aws"), T("s3api"), T("put-bucket-encryption"),
                      T("--bucket"), bucket_name,
                      T("--server-side-encryption-configuration"),
                      T("{Rules:[{ApplyServerSideEncryptionByDefault:{SSEAlgorithm:AES256}}]}") >>
    IN  IF ~Truthy(bucket_name) \/ bucket_name = finding.account_id
        THEN FixerReturn(FALSE, CannotDetermineBucket, <<>>)
        ELSE IF dry_run
        THEN FixerReturn(TRUE,
                 <<"[DRY RUN]", "Would enable AES-256 encryption on bucket:">> \o bucket_name,
                 <<>>)
        ELSE IF outcome.returncode = 0
        THEN FixerReturn(TRUE,
                 T("Successfully enabled encryption on bucket:") \o bucket_name,
                 <<command>>)
        ELSE FixerReturn(FALSE,
                 T("Failed to enable encryption on") \o bucket_name \o T(":") \o outcome.stderr,
                 <<command>>)

fix_s3_public_access_block(finding, dry_run, outcome) ==
    LET bucket_name == finding.resource
        command == << T("aws"), T("s3api"), T("put-public-access-block"),
                      T("--bucket"), bucket_name,
                      T("--public-access-block-configuration"),
                      T("BlockPublicAcls=true,IgnorePublicAcls=true,BlockPublicPolicy=true,RestrictPublicBuckets=true") >>
    IN  IF ~Truthy(bucket_name) \/ bucket_name = finding.account_id
        THEN FixerReturn(FALSE, CannotDetermineBucket, <<>>)
        ELSE IF dry_run
        THEN FixerReturn(TRUE,
                 <<"[DRY RUN]", "Would block public access on bucket:">> \o bucket_name,
                 <<>>)
        ELSE IF outcome.returncode = 0
        THEN FixerReturn(TRUE,
                 T("Successfully blocked public access on bucket:") \o bucket_name,
                 <<command>>)
        ELSE FixerReturn(FALSE,
                 T("Failed to block public access on") \o bucket_name \o T(":") \o outcome.stderr,
                 <<command>>)

\* fix_s3_versioning with the dry-run test forgotten
fix_s3_versioning_NoDryRunGuard(finding, dry_run, outcome) ==
    LET bucket_name == finding.resource
        command == << T("aws"), T("s3api"), T("put-bucket-versioning"),
                      T("--bucket"), bucket_name,
                      T("--versioning-configuration"), T("Status=Enabled") >>
    IN  IF ~Truthy(bucket_name) \/ bucket_name = finding.account_id
        THEN FixerReturn(FALSE, CannotDetermineBucket, <<>>)
        ELSE IF outcome.returncode = 0
        THEN FixerReturn(TRUE,
                 T("Successfully enabled versioning on bucket:") \o bucket_name,
                 <<command>>)
        ELSE FixerReturn(FALSE,
                 T("Failed to enable versioning on") \o bucket_name \o T(":") \o outcome.stderr,
                 <<command>>)

fix_s3_versioning(finding, dry_run, outcome) ==
    LET bucket_name == finding.resource
        command == << T("aws"), T("s3api"), T("put-bucket-versioning"),
                      T("--bucket"), bucket_name,
                      T("--versioning-configuration"), T("Status=Enabled") >>
    IN  IF ~Truthy(bucket_name) \/ bucket_name = finding.account_id
        THEN FixerReturn(FALSE, CannotDetermineBucket, <<>>)
        ELSE IF dry_run
        THEN FixerReturn(TRUE,
                 <<"[DRY RUN]", "Would enable versioning on bucket:">> \o bucket_name,
                 <<>>)
        ELSE IF outcome.returncode = 0
        THEN FixerReturn(TRUE,
                 T("Successfully enabled versioning on bucket:") \o bucket_name,
                 <<command>>)
        ELSE FixerReturn(FALSE,
                 T("Failed to enable versioning on") \o bucket_name \o T(":") \o outcome.stderr,
                 <<command>>)

fix_s3_logging(finding, dry_run, outcome) ==
    LET bucket_name == finding.resource
    IN  FixerReturn(FALSE,
            <<"[MANUAL]", "S3 logging for">> \o Fmt(bucket_name)
              \o T("requires a target bucket. Run: aws s3api put-bucket-logging --bucket")
              \o Fmt(bucket_name)
              \o T("--bucket-logging-status '{LoggingEnabled:{TargetBucket:YOUR-LOG-BUCKET,TargetPrefix:")
              \o Fmt(bucket_name) \o T("/}}'"),
            <<>>)

fix_iam_access_analyzer_ConflictFails(finding, dry_run, outcome) ==
    LET region == Get(finding.region, T("us-east-1"))
        analyzer_name == T("security-analyzer-") \o region
        command == << T("aws"), T("accessanalyzer"), T("create-analyzer"),
                      T("--analyzer-name"), analyzer_name,
                      T("--type"), T("ACCOUNT"),
                      T("--region"), region >>
    IN  IF dry_run
        THEN FixerReturn(TRUE,
                 <<"[DRY RUN]", "Would create IAM Access Analyzer in region:">> \o region,
                 <<>>)
        ELSE IF outcome.returncode = 0
        THEN FixerReturn(TRUE,
                 T("Successfully created IAM Access Analyzer in region:") \o region,
                 <<command>>)
        ELSE FixerReturn(FALSE,
                 T("Failed to create IAM Access Analyzer in") \o region \o T(":") \o outcome.stderr,
                 <<command>>)

fix_iam_access_analyzer(finding, dry_run, outcome) ==
    LET region == Get(finding.region, T("us-east-1"))
        analyzer_name == T("security-analyzer-") \o region
        command == << T("aws"), T("accessanalyzer"), T("create-analyzer"),
                      T("--analyzer-name"), analyzer_name,
                      T("--type"), T("ACCOUNT"),
                      T("--region"), region >>
    IN  IF dry_run
        THEN FixerReturn(TRUE,
                 <<"[DRY RUN]", "Would create IAM Access Analyzer in region:">> \o region,
                 <<>>)
        ELSE IF outcome.returncode = 0
        THEN FixerReturn(TRUE,
                 T("Successfully created IAM Access Analyzer in region:") \o region,
                 <<command>>)
        ELSE IF Contains(outcome.stderr, "ConflictException")
        THEN FixerReturn(TRUE,
                 T("IAM Access Analyzer already exists in region:") \o region,
                 <<command>>)
        ELSE FixerReturn(FALSE,
                 T("Failed to create IAM Access Analyzer in") \o region \o T(":") \o outcome.stderr,
                 <<command>>)

fix_account_level_public_access_block_RunsTwice(finding, dry_run, outcome) ==
    LET account_id == finding.account_id
        command == << T("aws"), T("s3control"), T("put-public-access-block"),
                      T("--account-id"), account_id,
                      T("--public-access-block-configuration"),
                      T("BlockPublicAcls=true,IgnorePublicAcls=true,BlockPublicPolicy=true,RestrictPublicBuckets=true") >>
    IN  IF ~Truthy(account_id)
        THEN FixerReturn(FALSE, T("Cannot determine account ID from finding"), <<>>)
        ELSE IF dry_run
        THEN FixerReturn(TRUE,
                 <<"[DRY RUN]", "Would enable account-level S3 public access block for account:">>
                   \o account_id,
                 <<>>)
        ELSE IF outcome.returncode = 0
        THEN FixerReturn(TRUE,
                 T("Successfully enabled account-level S3 public access block"),
                 <<command, command>>)
        ELSE FixerReturn(FALSE,
                 T("Failed to enable account-level public access block:") \o outcome.stderr,
                 <<command, command>>)

fix_account_level_public_access_block(finding, dry_run, outcome) ==
    LET account_id == finding.account_id
        command == << T("aws"), T("s3control"), T("put-public-access-block"),
                      T("--account-id"), account_id,
                      T("--public-access-block-configuration"),
                      T("BlockPublicAcls=true,IgnorePublicAcls=true,BlockPublicPolicy=true,RestrictPublicBuckets=true") >>
    IN  IF ~Truthy(account_id)
        THEN FixerReturn(FALSE, T("Cannot determine account ID from finding"), <<>>)
        ELSE IF dry_run
        THEN FixerReturn(TRUE,
                 <<"[DRY RUN]", "Would enable account-level S3 public access block for account:">>
                   \o account_id,
                 <<>>)
        ELSE IF outcome.returncode = 0
        THEN FixerReturn(TRUE,
                 T("Successfully enabled account-level S3 public access block"),
                 <<command>>)
        ELSE FixerReturn(FALSE,
                 T("Failed to enable account-level public access block:") \o outcome.stderr,
                 <<command>>)

\* ------------------------------------------------------------------------
\* REMEDIATION_MAP (remediate.py 260-283): finding id -> fixer
\* ------------------------------------------------------------------------

REMEDIATION_MAP ==
    ( T("s3_bucket_default_encryption")             :> "fix_s3_default_encryption" ) @@
    ( T("s3_bucket_server_side_encryption_enabled") :> "fix_s3_default_encryption" ) @@
    ( T("s3_bucket_public_access")                  :> "fix_s3_public_access_block" ) @@
    ( T("s3_bucket_level_public_access_block")      :> "fix_s3_public_access_block" ) @@
    ( T("s3_bucket_policy_public_write_access")     :> "fix_s3_public_access_block" ) @@
    ( T("s3_bucket_acl_prohibited")                 :> "fix_s3_public_access_block" ) @@
    ( T("s3_bucket_no_mfa_delete")                  :> "fix_s3_versioning" ) @@
    ( T("s3_bucket_versioning_enabled")             :> "fix_s3_versioning" ) @@
    ( T("s3_bucket_logging_enabled")                :> "fix_s3_logging" ) @@
    ( T("accessanalyzer_enabled")                   :> "fix_iam_access_analyzer" ) @@
    ( T("s3_account_level_public_access_blocks")    :> "fix_account_level_public_access_block" )

\* the call remediation_func(finding, dry_run=...) through the table
CallFixer(name, finding, dry_run, outcome) ==
    CASE name = "fix_s3_default_encryption"  -> fix_s3_default_encryption(finding, dry_run, outcome)
      [] name = "fix_s3_public_access_block" -> fix_s3_public_access_block(finding, dry_run, outcome)
      [] name = "fix_s3_versioning"          -> fix_s3_versioning(finding, dry_run, outcome)
      [] name = "fix_s3_logging"             -> fix_s3_logging(finding, dry_run, outcome)
      [] name = "fix_iam_access_analyzer"    -> fix_iam_access_analyzer(finding, dry_run, outcome)
      [] name = "fix_account_level_public_access_block"
                                             -> fix_account_level_public_access_block(finding, dry_run, outcome)

\* ------------------------------------------------------------------------
\* RemediationEngine (remediate.py 290-470)
\* ------------------------------------------------------------------------

\* RemediationEngine.__init__: the four empty result buckets
EmptyResults == [fixed |-> <<>>, failed |-> <<>>, skipped |-> <<>>, manual |-> <<>>]

\* Path.glob(kind_*.ext) over the findings directory: a directory is a set
\* of files [kind, suffix, ctime, content]
Glob(dir, kind) == {f \in dir : f.kind = kind}

LatestFile_Oldest(files) == CHOOSE f \in files : \A g \in files : f.ctime <= g.ctime

\* max(files, key=os.path.getctime)
LatestFile(files) == CHOOSE f \in files : \A g \in files : g.ctime <= f.ctime

\* load_latest_findings: raises FileNotFoundError when nothing matches
load_latest_findings(dir) ==
    LET json_files == Glob(dir, "aggregated_findings_json")
    IN  IF json_files = {}
        THEN [raised |-> TRUE, findings |-> <<>>]
        ELSE [raised |-> FALSE, findings |-> LatestFile(json_files).content]

IsType(f, finding_type) == f.finding_id = finding_type
IsResource(f, resource) == f.resource = resource
\* the severity filter comparing the strings as they are
IsSeverity_CaseSensitive(f, severity) == Get(f.severity, Empty) = severity

IsSeverity(f, severity) == Lower(Get(f.severity, Empty)) = Lower(severity)

filter_findings(findings, finding_type, resource, severity) ==
    LET byType == IF Truthy(finding_type)
                  THEN SelectSeq(findings, LAMBDA f : IsType(f, finding_type))
                  ELSE findings
        byRes  == IF Truthy(resource)
                  THEN SelectSeq(byType, LAMBDA f : IsResource(f, resource))
                  ELSE byType
    IN  IF Truthy(severity)
        THEN SelectSeq(byRes, LAMBDA f : IsSeverity(f, severity))
        ELSE byRes

\* the deduplication key of run(): (f.get('finding_id'), f.get('resource'))
DedupKey(f) == <<f.finding_id, f.resource>>

RECURSIVE DedupLoop(_, _, _, _)
DedupLoop(findings, i, seen, unique_findings) ==
    IF i > Len(findings)
    THEN unique_findings
    ELSE LET key == DedupKey(findings[i])
         IN  IF key \notin seen
             THEN DedupLoop(findings, i + 1, seen \cup {key}, Append(unique_findings, findings[i]))
             ELSE DedupLoop(findings, i + 1, seen, unique_findings)

\* run() with the `key not in seen` test dropped
Deduplicate_KeepAll(findings) == findings

\* run() 424-431
Deduplicate(findings) == DedupLoop(findings, 1, {}, <<>>)

\* remediate_finding 349-355: no fixer registered, the finding is skipped
\* (reported as a failure instead)
skip_unsupported_AsFailed(results, finding_id, resource) ==
    [results |-> [results EXCEPT !.failed = Append(@,
                     [finding_id |-> finding_id, resource |-> resource,
                      message |-> T("No automated remediation available")])],
     invoked |-> <<>>,
     ran     |-> <<>>]

skip_unsupported(results, finding_id, resource) ==
    [results |-> [results EXCEPT !.skipped = Append(@,
                     [finding_id |-> finding_id, resource |-> resource,
                      reason |-> T("No automated remediation available")])],
     invoked |-> <<>>,
     ran     |-> <<>>]

Classify_ByBoolean(success, message) == IF success THEN "fixed" ELSE "failed"

\* remediate_finding 361-378: the bucket a fixer's (success, message) lands in
Classify(success, message) ==
    IF Contains(message, "[MANUAL]") THEN "manual"
    ELSE IF success THEN "fixed"
    ELSE "failed"

apply_fixer_ManualAlsoFailed(results, finding, finding_id, resource, dry_run, outcome) ==
    LET remediation_func == REMEDIATION_MAP[finding_id]
        ret    == CallFixer(remediation_func, finding, dry_run, outcome)
        entry  == [finding_id |-> finding_id, resource |-> resource,
                   message |-> ret.message]
        bucket == Classify(ret.success, ret.message)
        filed  == [results EXCEPT ![bucket] = Append(@, entry)]
    IN  [results |-> IF bucket = "manual"
                     THEN [filed EXCEPT !.failed = Append(@, entry)]
                     ELSE filed,
         invoked |-> << [fixer |-> remediation_func, finding |-> finding,
                         success |-> ret.success, message |-> ret.message,
                         completed |-> IF ret.ran = <<>> THEN <<>> ELSE <<outcome>>] >>,
         ran     |-> ret.ran]

\* remediate_finding 357-378: call the registered fixer, file its result
apply_fixer(results, finding, finding_id, resource, dry_run, outcome) ==
    LET remediation_func == REMEDIATION_MAP[finding_id]
        ret    == CallFixer(remediation_func, finding, dry_run, outcome)
        entry  == [finding_id |-> finding_id, resource |-> resource,
                   message |-> ret.message]
        bucket == Classify(ret.success, ret.message)
    IN  [results |-> [results EXCEPT ![bucket] = Append(@, entry)],
         invoked |-> << [fixer |-> remediation_func, finding |-> finding,
                         success |-> ret.success, message |-> ret.message,
                         completed |-> IF ret.ran = <<>> THEN <<>> ELSE <<outcome>>] >>,
         ran     |-> ret.ran]

\* remediate_finding: the buckets after the call, the fixer invocation it
\* made (if any) and the external commands that fixer executed
remediate_finding(results, finding, dry_run, outcome) ==
    LET finding_id == Get(finding.finding_id, T("unknown"))
        resource   == Get(finding.resource, T("unknown"))
    IN  IF finding_id \notin DOMAIN REMEDIATION_MAP
        THEN skip_unsupported(results, finding_id, resource)
        ELSE apply_fixer(results, finding, finding_id, resource, dry_run, outcome)

\* ------------------------------------------------------------------------
\* State
\* ------------------------------------------------------------------------

VARIABLES
    pc,               \* where main() of remediate.py stands
    dirExists,        \* findings_dir.exists()
    outputDir,        \* the files of the aggregated-findings directory
    args,             \* the parsed command line
    response,         \* what input() returned, None while not asked
    dry_run,          \* RemediationEngine.dry_run
    results,          \* RemediationEngine.results
    unique_findings,  \* run(): the deduplicated list being processed
    idx,              \* run(): position of the for loop in unique_findings
    calls,            \* every fixer invocation so far: [fixer, finding]
    commands,         \* argv of every subprocess.run so far
    exit_code,        \* what main() returned, -1 while it has not
    fn_in,            \* a function under test: its name and arguments
    fn_out,           \* a function under test: whether it returned, and what
    scanInputs,       \* the scanners' output directories
    agg_pc,           \* where the aggregator stands
    findings,         \* FindingsAggregator.findings
    summary,          \* what generate_summary returned
    clock,            \* the wall clock, in ticks
    timestamp,        \* export_results: the suffix taken, -1 while none
    pd,               \* whether pandas was imported
    run               \* how many aggregation runs were started

\* the remediation CLI's state
remVars == <<pc, dirExists, outputDir, args, response, dry_run, results,
             unique_findings, idx, calls, commands, exit_code>>

\* the state of a function under test
fnVars == <<fn_in, fn_out>>

\* the aggregator's state
expVars == <<clock, timestamp, pd, run>>

aggVars == <<scanInputs, agg_pc, findings, summary, expVars>>

vars == <<remVars, fnVars, aggVars>>

\* ------------------------------------------------------------------------
\* Inputs
\* ------------------------------------------------------------------------

sHigh == <<"H","i","g","h">>
sLow  == <<"L","o","w">>

BucketA      == T("bucket-a")
AccountId    == T("123456789012")
TaggedBucket == <<"logs-", "[MANUAL]">>
UsEast1      == T("us-east-1")

\* findings an aggregated file may hold: every fixer, an alias, validation
\* failures, unsupported and absent finding ids, a repeated (id, resource)
FindingPool ==
    { Finding(T("s3_bucket_default_encryption"), BucketA, AccountId, UsEast1, sHigh),
      Finding(T("s3_bucket_default_encryption"), BucketA, AccountId, UsEast1, sLow),
      Finding(T("s3_bucket_server_side_encryption_enabled"), TaggedBucket, AccountId, UsEast1, sHigh),
      Finding(T("s3_bucket_public_access"), AccountId, AccountId, UsEast1, sHigh),
      Finding(T("s3_bucket_acl_prohibited"), None, AccountId, UsEast1, sLow),
      Finding(T("s3_bucket_versioning_enabled"), BucketA, None, UsEast1, sLow),
      Finding(T("s3_bucket_logging_enabled"), BucketA, AccountId, UsEast1, sHigh),
      Finding(T("s3_bucket_logging_enabled"), Empty, AccountId, UsEast1, sLow),
      Finding(T("accessanalyzer_enabled"), AccountId, AccountId, None, sLow),
      Finding(T("accessanalyzer_enabled"), AccountId, AccountId, Empty, sHigh),
      Finding(T("s3_account_level_public_access_blocks"), AccountId, AccountId, UsEast1, sHigh),
      Finding(T("s3_account_level_public_access_blocks"), AccountId, None, UsEast1, sHigh),
      Finding(T("iam_root_mfa_enabled"), T("root"), AccountId, UsEast1, sHigh),
      Finding(None, None, AccountId, UsEast1, None),
      Finding(T("unknown"), T("unknown"), AccountId, UsEast1, sLow) }

SeqsUpTo(S, n) == UNION {[1..k -> S] : k \in 0..n}

\* the findings of FindingPool that a fixer or the table turns down, with
\* one that reaches its command
FailurePool ==
    { Finding(T("s3_bucket_default_encryption"), BucketA, AccountId, UsEast1, sHigh),
      Finding(T("s3_bucket_public_access"), AccountId, AccountId, UsEast1, sHigh),
      Finding(T("s3_bucket_acl_prohibited"), None, AccountId, UsEast1, sLow),
      Finding(T("s3_bucket_logging_enabled"), BucketA, AccountId, UsEast1, sHigh),
      Finding(T("s3_account_level_public_access_blocks"), AccountId, None, UsEast1, sHigh),
      Finding(T("iam_root_mfa_enabled"), T("root"), AccountId, UsEast1, sHigh) }

File(kind, suffix, ctime, content) ==
    [kind |-> kind, suffix |-> suffix, ctime |-> ctime, content |-> content]

OlderFile == File("aggregated_findings_json", "20240101_000000", 1,
                  << Finding(T("s3_bucket_versioning_enabled"), T("bucket-old"), AccountId, UsEast1, sHigh) >>)

NewerFile(L) == File("aggregated_findings_json", "20240102_000000", 2, L)

\* directories the remediation CLI may be pointed at, their findings drawn
\* from `pool`
InitialDirs(pool) ==
    {{}} \cup {{NewerFile(L)} : L \in SeqsUpTo(pool, MaxFindings)}
         \cup {{OlderFile, NewerFile(L)} : L \in SeqsUpTo(pool, 1)}

\* what the user may type at the prompt
Answers == { <<"y","e","s">>, <<"Y","E","S">>, <<"n","o">>, Empty }

\* what an executed aws command may come back with
Outcomes == { Completed(0, Empty),
              Completed(254, T("AccessDenied")),
              Completed(254, <<"An error occurred (", "ConflictException", ")">>) }

\* command lines: --apply or not, each filter given or not
ArgSets ==
    [apply : BOOLEAN,
     finding_type : {None, T("s3_bucket_default_encryption")},
     resource : {None, BucketA},
     severity : {None, sHigh}]

NoArgs == [apply |-> FALSE, finding_type |-> None, resource |-> None, severity |-> None]

\* ------------------------------------------------------------------------
\* main() of remediate.py, step by step
\* ------------------------------------------------------------------------

\* no function is under test
FnIdle ==
    /\ fn_in = [op |-> "none"]
    /\ fn_out = [done |-> FALSE]

\* no aggregator has been built
AggIdle ==
    /\ scanInputs = [prowler |-> [exists |-> FALSE], scout |-> [exists |-> FALSE]]
    /\ agg_pc = "idle"
    /\ findings = <<>>
    /\ summary = None
    /\ clock = 0
    /\ timestamp = -1
    /\ pd = FALSE
    /\ run = 0

\* remediate.py has not been started
RemIdle ==
    /\ pc = "idle"
    /\ dirExists = FALSE
    /\ outputDir = {}
    /\ args = NoArgs
    /\ response = None
    /\ dry_run = TRUE
    /\ results = EmptyResults
    /\ unique_findings = <<>>
    /\ idx = 1
    /\ calls = <<>>
    /\ commands = <<>>
    /\ exit_code = -1

InitFrom(pool) ==
    /\ FnIdle
    /\ AggIdle
    /\ pc = "main"
    /\ dirExists \in BOOLEAN
    /\ outputDir \in InitialDirs(pool)
    /\ (~dirExists => outputDir = {})
    /\ args = NoArgs
    /\ response = None
    /\ dry_run = TRUE
    /\ results = EmptyResults
    /\ unique_findings = <<>>
    /\ idx = 1
    /\ calls = <<>>
    /\ commands = <<>>
    /\ exit_code = -1

Init == InitFrom(FindingPool)

\* the prompt's answer ignored
ConfirmationAccepted_Always(answer) == TRUE

\* main() 539: response.lower() != 'yes' aborts
ConfirmationAccepted(answer) == Lower(answer) = <<"y","e","s">>

\* main() 520-541: parse the arguments, test the directory, go on to the
\* prompt (apply) or to the engine (dry run)
Main ==
    /\ pc = "main"
    /\ \E a \in ArgSets :
         /\ args' = a
         /\ IF ~dirExists
            THEN pc' = "exited" /\ exit_code' = 1
            ELSE /\ pc' = IF a.apply THEN "confirm" ELSE "engine"
                 /\ UNCHANGED exit_code
    /\ UNCHANGED <<dirExists, outputDir, response, dry_run, results,
                   unique_findings, idx, calls, commands>>
    /\ UNCHANGED <<fnVars, aggVars>>

\* main() 536-541: the prompt of apply mode
Confirm ==
    /\ pc = "confirm"
    /\ \E answer \in Answers :
         /\ response' = answer
         /\ IF ~ConfirmationAccepted(answer)
            THEN pc' = "exited" /\ exit_code' = 0
            ELSE pc' = "engine" /\ UNCHANGED exit_code
    /\ UNCHANGED <<dirExists, outputDir, args, dry_run, results,
                   unique_findings, idx, calls, commands>>
    /\ UNCHANGED <<fnVars, aggVars>>

\* main() 544-553 and run() 408-433: build the engine, load, filter and
\* deduplicate; an early return of run() is followed by main's return 0
EngineStart ==
    /\ pc = "engine"
    /\ dry_run' = ~args.apply
    /\ results' = EmptyResults
    /\ LET loaded   == load_latest_findings(outputDir)
           selected == filter_findings(loaded.findings, args.finding_type,
                                       args.resource, args.severity)
       IN  IF loaded.raised \/ selected = <<>>
           THEN /\ pc' = "exited"
                /\ exit_code' = 0
                /\ UNCHANGED <<unique_findings, idx>>
           ELSE /\ pc' = "loop"
                /\ unique_findings' = Deduplicate(selected)
                /\ idx' = 1
                /\ UNCHANGED exit_code
    /\ UNCHANGED <<dirExists, outputDir, args, response, calls, commands>>
    /\ UNCHANGED <<fnVars, aggVars>>

\* the loop of run() leaving at the first failed finding
Remediate_AbortOnFailure ==
    /\ pc = "loop"
    /\ idx <= Len(unique_findings)
    /\ \E outcome \in Outcomes :
         LET r == remediate_finding(results, unique_findings[idx], dry_run, outcome)
         IN  /\ results' = r.results
             /\ calls' = calls \o r.invoked
             /\ commands' = commands \o r.ran
             /\ IF Len(r.results.failed) > Len(results.failed)
                THEN pc' = "exited" /\ exit_code' = 0
                ELSE UNCHANGED <<pc, exit_code>>
    /\ idx' = idx + 1
    /\ UNCHANGED <<dirExists, outputDir, args, response, dry_run, unique_findings>>
    /\ UNCHANGED <<fnVars, aggVars>>

\* run() 436-437: one pass of the loop, remediate_finding(finding)
Remediate ==
    /\ pc = "loop"
    /\ idx <= Len(unique_findings)
    /\ \E outcome \in Outcomes :
         LET r == remediate_finding(results, unique_findings[idx], dry_run, outcome)
         IN  /\ results' = r.results
             /\ calls' = calls \o r.invoked
             /\ commands' = commands \o r.ran
    /\ idx' = idx + 1
    /\ UNCHANGED <<pc, dirExists, outputDir, args, response, dry_run,
                   unique_findings, exit_code>>
    /\ UNCHANGED <<fnVars, aggVars>>

\* main() returning a failure status when a finding failed
Finish_ExitOneOnFailed ==
    /\ pc = "loop"
    /\ idx > Len(unique_findings)
    /\ pc' = "exited"
    /\ exit_code' = IF results.failed # <<>> THEN 1 ELSE 0
    /\ UNCHANGED <<dirExists, outputDir, args, response, dry_run, results,
                   unique_findings, idx, calls, commands>>
    /\ UNCHANGED <<fnVars, aggVars>>

\* run() 440-442 and main() 555: print the summary, return 0
Finish ==
    /\ pc = "loop"
    /\ idx > Len(unique_findings)
    /\ pc' = "exited"
    /\ exit_code' = 0
    /\ UNCHANGED <<dirExists, outputDir, args, response, dry_run, results,
                   unique_findings, idx, calls, commands>>
    /\ UNCHANGED <<fnVars, aggVars>>

Next == Main \/ Confirm \/ EngineStart \/ Remediate \/ Finish

Spec == Init /\ [][Next]_vars

\* the run is sequential and every external command returns: a step that
\* can be taken is taken
FairSpec == InitFrom(FailurePool) /\ [][Next]_vars /\ WF_vars(Next)

\* ------------------------------------------------------------------------
\* Properties of the remediation run
\* ------------------------------------------------------------------------

\* the findings run() works on: the latest file's, after the filters
SelectedFindings ==
    filter_findings(load_latest_findings(outputDir).findings,
                    args.finding_type, args.resource, args.severity)

\* the findings remediate_finding has been called on so far
Processed == SubSeq(unique_findings, 1, idx - 1)

TotalEntries ==
    Len(results.fixed) + Len(results.failed) + Len(results.skipped) + Len(results.manual)

\* main() went through the engine and returned
RunReturned ==
    /\ pc = "exited"
    /\ dirExists
    /\ args.apply => (response # None /\ Lower(response) = <<"y","e","s">>)

InBucket(bucket, finding_id, resource) ==
    \E i \in 1..Len(results[bucket]) :
        /\ results[bucket][i].finding_id = finding_id
        /\ results[bucket][i].resource = resource

\* the result entry of a fixer invocation is in this bucket
CallInBucket(bucket, c) ==
    \E i \in 1..Len(results[bucket]) :
        /\ results[bucket][i].finding_id = c.finding.finding_id
        /\ results[bucket][i].resource = Get(c.finding.resource, T("unknown"))
        /\ results[bucket][i].message = c.message

\* C1: in dry-run mode no external command is executed, whatever the
\* findings are, up to and including the end of the run
C1_DryRunIssuesNoCommand == dry_run => commands = <<>>

\* a dry run that invoked fixers on two findings and returned
C1_Witness == pc = "exited" /\ dry_run /\ Len(calls) = 2

\* C2 as stated: a command is issued in apply mode only after the answer
\* 'yes' itself; any other answer ends main with nothing constructed or run
C2_OnlyLiteralYes ==
    /\ (args.apply /\ commands # <<>>) => response = <<"y","e","s">>
    /\ (response # None /\ response # <<"y","e","s">>) =>
           (pc = "exited" /\ commands = <<>> /\ calls = <<>>
              /\ results = EmptyResults /\ unique_findings = <<>>)

\* C2 amended: a command is issued in apply mode only after an answer that
\* lower-cases to 'yes'; any other answer ends main with exit code 0, no
\* engine run and no command
C2_ConfirmedBeforeCommand ==
    /\ (args.apply /\ (commands # <<>> \/ pc \in {"engine", "loop"})) =>
           (response # None /\ Lower(response) = <<"y","e","s">>)
    /\ (response # None /\ Lower(response) # <<"y","e","s">>) =>
           (pc = "exited" /\ exit_code = 0 /\ commands = <<>> /\ calls = <<>>
              /\ results = EmptyResults /\ unique_findings = <<>>)

\* apply mode, confirmed, and a command has been issued
C2_Witness == args.apply /\ commands # <<>>

Unsupported(f) == Get(f.finding_id, T("unknown")) \notin DOMAIN REMEDIATION_MAP

\* C3: remediating a finding whose finding_id is no key of REMEDIATION_MAP
\* appends one entry to skipped and nothing to fixed, failed or manual,
\* invokes no fixer and issues no command, in dry-run and in apply mode
C3_UnsupportedIsSkipped ==
    [][ (pc = "loop" /\ idx <= Len(unique_findings) /\ idx' = idx + 1
           /\ Unsupported(unique_findings[idx]))
        => /\ Len(results'.skipped) = Len(results.skipped) + 1
           /\ results'.skipped[Len(results'.skipped)].finding_id
                 = Get(unique_findings[idx].finding_id, T("unknown"))
           /\ results'.skipped[Len(results'.skipped)].resource
                 = Get(unique_findings[idx].resource, T("unknown"))
           /\ results'.fixed = results.fixed
           /\ results'.failed = results.failed
           /\ results'.manual = results.manual
           /\ calls' = calls
           /\ commands' = commands ]_vars

\* an apply-mode run that skipped a finding and also issued a command
C3_Witness == ~dry_run /\ Len(results.skipped) >= 1 /\ commands # <<>>

SelectedKeys == {DedupKey(SelectedFindings[i]) : i \in 1..Len(SelectedFindings)}

\* C4: each distinct (finding_id, resource) of the selected findings gets
\* at most one fixer invocation, and once the run has returned the result
\* entries are one per distinct pair, each pair having its entry
C4_OnePerPair ==
    /\ \A k \in SelectedKeys :
          Cardinality({i \in 1..Len(calls) : DedupKey(calls[i].finding) = k}) <= 1
    /\ TotalEntries <= Cardinality(SelectedKeys)
    /\ RunReturned =>
          /\ TotalEntries = Cardinality(SelectedKeys)
          /\ \A k \in SelectedKeys :
                \E b \in {"fixed", "failed", "skipped", "manual"} :
                    InBucket(b, Get(k[1], T("unknown")), Get(k[2], T("unknown")))

\* the selected list repeats a pair, and the run has remediated it
C4_Witness ==
    /\ RunReturned
    /\ Len(SelectedFindings) = 2
    /\ Cardinality(SelectedKeys) = 1
    /\ Len(calls) = 1

\* C5 as stated: in dry-run mode every fixer invocation returns true with
\* the [DRY RUN] marker and its finding is filed under fixed
C5_EveryDryRunCallFixed ==
    dry_run =>
        \A i \in 1..Len(calls) :
            /\ calls[i].success
            /\ Contains(calls[i].message, "[DRY RUN]")
            /\ CallInBucket("fixed", calls[i])

\* the finding passes the validation of the fixer
ValidTarget(fixer, f) ==
    IF fixer \in {"fix_s3_default_encryption", "fix_s3_public_access_block",
                  "fix_s3_versioning"}
    THEN f.resource # None /\ f.resource # Empty /\ f.resource # f.account_id
    ELSE IF fixer = "fix_account_level_public_access_block"
    THEN f.account_id # None /\ f.account_id # Empty
    ELSE TRUE

\* C5 amended: in dry-run mode every fixer invocation other than
\* fix_s3_logging, on a finding that passes the fixer's validation, returns
\* true with the [DRY RUN] marker; its finding is filed under fixed, or
\* under manual when the message carries the text [MANUAL]
C5_ValidDryRunCallFixed ==
    dry_run =>
        \A i \in 1..Len(calls) :
            (calls[i].fixer # "fix_s3_logging" /\ ValidTarget(calls[i].fixer, calls[i].finding))
            => /\ calls[i].success
               /\ Contains(calls[i].message, "[DRY RUN]")
               /\ IF Contains(calls[i].message, "[MANUAL]")
                  THEN CallInBucket("manual", calls[i])
                  ELSE CallInBucket("fixed", calls[i])

\* a dry run that filed two valid findings under fixed
C5_Witness ==
    /\ dry_run /\ Len(calls) = 2 /\ Len(results.fixed) = 2
    /\ \A i \in 1..2 : ValidTarget(calls[i].fixer, calls[i].finding)

\* every unique finding has gone through remediate_finding, in order, and
\* each has its entry in a bucket
AllRecorded ==
    /\ idx = Len(unique_findings) + 1
    /\ TotalEntries = Len(unique_findings)
    /\ \A i \in 1..Len(unique_findings) :
          \E b \in {"fixed", "failed", "skipped", "manual"} :
              InBucket(b, Get(unique_findings[i].finding_id, T("unknown")),
                          Get(unique_findings[i].resource, T("unknown")))

\* C6: a step that files a finding under failed leaves the loop running at
\* the next finding, and a run that entered the loop eventually returns
\* with every unique finding recorded
C6_FailureIsolated ==
    /\ [][ Len(results'.failed) > Len(results.failed)
           => (pc' = "loop" /\ idx' = idx + 1 /\ unique_findings' = unique_findings) ]_vars
    /\ (pc = "loop") ~> (pc = "exited" /\ exit_code = 0 /\ AllRecorded)

\* the first of two findings failed and the second was still processed
C6_Witness ==
    /\ pc = "exited"
    /\ Len(unique_findings) = 2
    /\ Len(results.failed) = 1
    /\ results.failed[1].finding_id = unique_findings[1].finding_id
    /\ results.failed[1].resource = Get(unique_findings[1].resource, T("unknown"))
    /\ TotalEntries = 2

\* main() returned although nothing stopped it but its input, and no
\* finding was processed
EndedUnprocessed ==
    /\ pc = "exited"
    /\ (response = None \/ Lower(response) = <<"y","e","s">>)
    /\ idx = 1

MaxFilterLen == 2

sHighLower == <<"h","i","g","h">>
sHighUpper == <<"H","I","G","H">>

FilterPool ==
    { Finding(fid, res, AccountId, UsEast1, sev) :
        fid \in {T("s3_bucket_default_encryption"), T("s3_bucket_versioning_enabled")},
        res \in {BucketA, Empty},
        sev \in {sHigh, sHighLower, sLow} }
    \cup { Finding(None, None, None, None, None) }

FilterInputs ==
    [op : {"filter_findings"},
     findings : SeqsUpTo(FilterPool, MaxFilterLen),
     finding_type : {None, Empty, T("s3_bucket_default_encryption")},
     resource : {None, Empty, BucketA},
     severity : {None, Empty, sHighUpper, sLow}]

FilterInit ==
    /\ RemIdle
    /\ AggIdle
    /\ fn_in \in FilterInputs
    /\ fn_out = [done |-> FALSE]

\* engine.filter_findings(findings, finding_type, resource, severity)
CallFilter ==
    /\ fn_in.op = "filter_findings"
    /\ ~fn_out.done
    /\ fn_out' = [done |-> TRUE,
                  value |-> filter_findings(fn_in.findings, fn_in.finding_type,
                                            fn_in.resource, fn_in.severity)]
    /\ UNCHANGED <<fn_in, remVars, aggVars>>

FilterNext == CallFilter

FilterSpec == FilterInit /\ [][FilterNext]_vars

\* two texts are equal up to the case of their letters
SameIgnoringCase(a, b) ==
    /\ Len(a) = Len(b)
    /\ \A i \in 1..Len(a) :
          \/ a[i] = b[i]
          \/ (a[i] \in UpperChars /\ LowerOf[a[i]] = b[i])
          \/ (b[i] \in UpperChars /\ LowerOf[b[i]] = a[i])

\* the finding passes every filter for which `given` holds
Passes(f, given(_)) ==
    /\ given(fn_in.finding_type) => f.finding_id = fn_in.finding_type
    /\ given(fn_in.resource) => f.resource = fn_in.resource
    /\ given(fn_in.severity) =>
          SameIgnoringCase(IF f.severity = None THEN Empty ELSE f.severity, fn_in.severity)

Supplied(v) == v # None

SuppliedNonEmpty(v) == v # None /\ v # Empty

\* C10 as stated: the result is the sub-list, in order, of the findings that
\* equal every supplied filter (severity up to case); a filter that is not
\* supplied restricts nothing
C10_FilterIsConjunction ==
    fn_out.done =>
        fn_out.value = SelectSeq(fn_in.findings, LAMBDA f : Passes(f, Supplied))

\* C10 amended: the same, a filter counting as supplied only when it is a
\* non-empty string; an empty-string filter restricts nothing
C10_FilterIsConjunctionOfNonEmpty ==
    fn_out.done =>
        fn_out.value = SelectSeq(fn_in.findings, LAMBDA f : Passes(f, SuppliedNonEmpty))

\* all three filters given; they keep one finding, whose severity differs
\* from the filter in case only, and drop another
C10_Witness ==
    /\ fn_out.done
    /\ SuppliedNonEmpty(fn_in.finding_type)
    /\ SuppliedNonEmpty(fn_in.resource)
    /\ SuppliedNonEmpty(fn_in.severity)
    /\ Len(fn_in.findings) = 2
    /\ Len(fn_out.value) = 1
    /\ fn_out.value[1].severity # fn_in.severity

\* ------------------------------------------------------------------------
\* FindingsAggregator (aggregate_findings.py)
\* ------------------------------------------------------------------------

\* most records of a Prowler result file written into the model
MaxRecords == 2

LowerChars == {LowerOf[c] : c \in UpperChars}

UpperOf == [c \in LowerChars |-> CHOOSE u \in UpperChars : LowerOf[u] = c]

\* str.upper()
Upper(s) == [i \in 1..Len(s) |-> IF s[i] \in LowerChars THEN UpperOf[s[i]] ELSE s[i]]

severity_mapping ==
    ( <<"C","R","I","T","I","C","A","L">> :> T("Critical") ) @@
    ( <<"H","I","G","H">>                 :> T("High") ) @@
    ( <<"M","E","D","I","U","M">>         :> T("Medium") ) @@
    ( <<"L","O","W">>                     :> T("Low") ) @@
    ( <<"I","N","F","O">>                 :> T("Informational") ) @@
    ( <<"I","N","F","O","R","M","A","T","I","O","N","A","L">> :> T("Informational") )

map_severity_NoUpper(severity) ==
    IF severity \in DOMAIN severity_mapping
    THEN severity_mapping[severity]
    ELSE T("Medium")

\* _map_severity 446-459
map_severity(severity) ==
    LET severity_upper == Upper(severity)
    IN  IF severity_upper \in DOMAIN severity_mapping
        THEN severity_mapping[severity_upper]
        ELSE T("Medium")

\* ------------------------------------------------------------------------
\* Remediation extraction of the Prowler normalizer
\* ------------------------------------------------------------------------

\* {} : a dict without keys
EmptyDict == [k \in {} |-> 0]

\* a JSON value where an object is expected: a dict (keys are its DOMAIN)
\* or a string
PyDict(d) == [dict |-> d]
PyStr(s)  == [str |-> s]

\* isinstance(v, dict)
IsDict(v) == "dict" \in DOMAIN v

\* d.get(key, default) on a dict whose absent keys are not in its domain
DictGet(d, key, default) == IF key \in DOMAIN d THEN d[key] ELSE default

Whitespace == {" ", "\n", "\t"}

Strip_Identity(s) == s

\* str.strip() on a text given character by character
Strip(s) ==
    LET solid == {i \in 1..Len(s) : s[i] \notin Whitespace}
    IN  IF solid = {}
        THEN <<>>
        ELSE SubSeq(s, CHOOSE i \in solid : \A j \in solid : i <= j,
                       CHOOSE i \in solid : \A j \in solid : j <= i)

\* str.split(sep) for a one-character separator
RECURSIVE Split(_, _)
Split(s, sep) ==
    LET at == {i \in 1..Len(s) : s[i] = sep}
    IN  IF at = {}
        THEN <<s>>
        ELSE LET i == CHOOSE x \in at : \A y \in at : x <= y
             IN  <<SubSeq(s, 1, i - 1)>> \o Split(SubSeq(s, i + 1, Len(s)), sep)

\* ', '.join(parts)
RECURSIVE Join(_)
Join(parts) ==
    IF parts = <<>> THEN <<>>
    ELSE IF Len(parts) = 1 THEN parts[1]
    ELSE parts[1] \o <<",", " ">> \o Join(Tail(parts))

\* re.findall(r'<([^>]+)>', s) from position i on
RECURSIVE FindPlaceholders(_, _)
FindPlaceholders(s, i) ==
    IF i > Len(s)
    THEN <<>>
    ELSE IF s[i] # "<"
    THEN FindPlaceholders(s, i + 1)
    ELSE LET closing == {j \in (i + 1)..Len(s) : s[j] = ">"}
         IN  IF closing = {}
             THEN <<>>
             ELSE LET j == CHOOSE x \in closing : \A y \in closing : x <= y
                  IN  IF j = i + 1
                      THEN FindPlaceholders(s, i + 1)
                      ELSE <<SubSeq(s, i + 1, j - 1)>> \o FindPlaceholders(s, j + 1)

\* _extract_placeholders_note 333-339
extract_placeholders_note(cli_cmd) ==
    LET placeholders == FindPlaceholders(cli_cmd, 1)
    IN  IF placeholders # <<>>
        THEN T("Replace placeholders: ")
             \o Join([i \in 1..Len(placeholders) |-> <<"<">> \o placeholders[i] \o <<">">>])
        ELSE Empty

\* _generate_console_steps 341-350
generate_console_steps(summary_text) ==
    LET replaced  == [i \in 1..Len(summary_text) |->
                        IF i > 1 /\ summary_text[i - 1] = "." /\ summary_text[i] = " "
                        THEN "|" ELSE summary_text[i]]
        sentences == Split(replaced, "|")
        first     == SubSeq(sentences, 1, IF Len(sentences) < 5 THEN Len(sentences) ELSE 5)
        stripped  == [i \in 1..Len(first) |-> Strip(first[i])]
        steps     == SelectSeq(stripped, LAMBDA sentence : sentence # <<>> /\ Len(sentence) > 10)
    IN  IF steps # <<>> THEN steps ELSE <<summary_text>>

\* _extract_prowler_remediation 246-331
extract_prowler_remediation(remediation_info) ==
    IF ~IsDict(remediation_info)
    THEN [summary |-> Empty, doc_url |-> Empty, options |-> <<>>]
    ELSE LET recommendation == DictGet(remediation_info.dict, "Recommendation", PyDict(EmptyDict))
             summary_text   == IF IsDict(recommendation)
                               THEN DictGet(recommendation.dict, "Text", Empty)
                               ELSE Empty
             doc_url        == IF IsDict(recommendation)
                               THEN DictGet(recommendation.dict, "Url", Empty)
                               ELSE Empty
             code           == DictGet(remediation_info.dict, "Code", PyDict(EmptyDict))
             cli_cmd        == Strip(DictGet(code.dict, "CLI", Empty))
             terraform_code == Strip(DictGet(code.dict, "Terraform", Empty))
             native_iac     == Strip(DictGet(code.dict, "NativeIaC", Empty))
             other          == Strip(DictGet(code.dict, "Other", Empty))
             code_options   ==
                 IF ~IsDict(code)
                 THEN <<>>
                 ELSE (IF cli_cmd # Empty
                       THEN <<[type |-> T("cli"), label |-> T("AWS CLI"), code |-> cli_cmd,
                               note |-> extract_placeholders_note(cli_cmd)]>>
                       ELSE <<>>)
                   \o (IF terraform_code # Empty
                       THEN <<[type |-> T("terraform"), label |-> T("Terraform"),
                               code |-> terraform_code,
                               note |-> T("Adapt resource names and values to your configuration")]>>
                       ELSE <<>>)
                   \o (IF native_iac # Empty
                       THEN <<[type |-> T("cloudformation"), label |-> T("CloudFormation"),
                               code |-> native_iac,
                               note |-> T("Adapt resource names and values to your configuration")]>>
                       ELSE <<>>)
                   \o (IF other # Empty
                       THEN <<[type |-> T("other"), label |-> T("Other"), code |-> other,
                               note |-> Empty]>>
                       ELSE <<>>)
             console_option ==
                 IF summary_text # Empty
                 THEN <<[type |-> T("console"), label |-> T("AWS Console"),
                         steps |-> generate_console_steps(summary_text),
                         note |-> T("Manual steps via AWS Management Console")]>>
                 ELSE <<>>
         IN  [summary |-> summary_text, doc_url |-> doc_url,
              options |-> code_options \o console_option]

\* list(d.keys()) of a dict given as the sequence of its (key, value) items
Keys(items) == [i \in 1..Len(items) |-> items[i][1]]

\* one check object of a Prowler result file; an absent key is None for the
\* six fields every record of the model names, and is not in the record's
\* domain for the others
Check(status, check_id, severity, resource_id, region, account) ==
    [Status |-> status, CheckID |-> check_id, Severity |-> severity,
     ResourceId |-> resource_id, Region |-> region, AccountId |-> account]

\* _normalize_prowler_finding 223-244; the timestamp, the wall clock at the
\* call, is not part of the record modelled
normalize_prowler_finding(check) ==
    [source         |-> T("Prowler"),
     cloud_provider |-> T("AWS"),
     finding_id     |-> Get(check.CheckID, T("unknown")),
     severity       |-> map_severity(Get(check.Severity, <<"m","e","d","i","u","m">>)),
     status         |-> Get(check.Status, T("UNKNOWN")),
     title          |-> DictGet(check, "CheckTitle", Empty),
     resource       |-> Get(check.ResourceId, Empty),
     resource_arn   |-> DictGet(check, "ResourceArn", Empty),
     region         |-> Get(check.Region, Empty),
     account_id     |-> Get(check.AccountId, Empty),
     description    |-> DictGet(check, "Description", Empty),
     issue          |-> DictGet(check, "StatusExtended", Empty),
     risk           |-> DictGet(check, "Risk", Empty),
     remediation    |-> extract_prowler_remediation(
                            DictGet(check, "Remediation", PyDict(EmptyDict))),
     compliance     |-> Keys(DictGet(check, "Compliance", <<>>))]

\* what a loader hands back: the exception it raised ("" for none) and the
\* findings it returned
Returned(fs) == [raised |-> "", value |-> fs]
Raised(exc)  == [raised |-> exc, value |-> <<>>]

\* a result file: its name pattern, creation time and content
ScanFile(kind, ctime, content) == [kind |-> kind, ctime |-> ctime, content |-> content]

\* json.load of a Prowler file: a list of checks, or a decode failure
Decoded(records) == [decodes |-> TRUE, records |-> records]
Malformed == [decodes |-> FALSE, records |-> <<>>]

RECURSIVE FailedChecks_AllStatuses(_, _)
FailedChecks_AllStatuses(prowler_data, i) ==
    IF i > Len(prowler_data)
    THEN <<>>
    ELSE <<normalize_prowler_finding(prowler_data[i])>>
         \o FailedChecks_AllStatuses(prowler_data, i + 1)

\* _load_prowler_from_dir 108-115: keep and normalize the FAIL checks
RECURSIVE FailedChecks(_, _)
FailedChecks(prowler_data, i) ==
    IF i > Len(prowler_data)
    THEN <<>>
    ELSE IF prowler_data[i].Status = T("FAIL")
    THEN <<normalize_prowler_finding(prowler_data[i])>> \o FailedChecks(prowler_data, i + 1)
    ELSE FailedChecks(prowler_data, i + 1)

\* _load_prowler_from_dir 84-115; files named prowler-output-*.ocsf.json
\* match the glob and are filtered out
load_prowler_from_dir(files) ==
    LET prowler_files == {f \in files : /\ f.kind \in {"prowler-output-*.json",
                                                       "prowler-output-*.ocsf.json"}
                                        /\ f.kind # "prowler-output-*.ocsf.json"}
    IN  IF prowler_files = {}
        THEN Returned(<<>>)
        ELSE LET latest_file == LatestFile(prowler_files)
             IN  IF ~latest_file.content.decodes
                 THEN Raised("JSONDecodeError")
                 ELSE Returned(FailedChecks(latest_file.content.records, 1))

Digits == {"0","1","2","3","4","5","6","7","8","9"}

\* str.isdigit() of a directory name
IsDigit(name) == Len(name) > 0 /\ \A i \in 1..Len(name) : name[i] \in Digits

DigitValue == [c \in Digits |->
                 CASE c = "0" -> 0 [] c = "1" -> 1 [] c = "2" -> 2 [] c = "3" -> 3
                   [] c = "4" -> 4 [] c = "5" -> 5 [] c = "6" -> 6 [] c = "7" -> 7
                   [] c = "8" -> 8 [] c = "9" -> 9]

\* the order sorted() puts two numeric directory names in
NameBefore(a, b) ==
    \E i \in 1..(Len(a) + 1) :
        /\ \A j \in 1..(i - 1) : j <= Len(b) /\ a[j] = b[j]
        /\ \/ (i > Len(a) /\ i <= Len(b))
           \/ (i <= Len(a) /\ i <= Len(b) /\ DigitValue[a[i]] < DigitValue[b[i]])

RECURSIVE SortedDirs_Descending(_)
SortedDirs_Descending(dirs) ==
    IF dirs = {}
    THEN <<>>
    ELSE LET first == CHOOSE d \in dirs : \A e \in dirs \ {d} : NameBefore(e.name, d.name)
         IN  <<first>> \o SortedDirs_Descending(dirs \ {first})

\* sorted(account_dirs)
RECURSIVE SortedDirs(_)
SortedDirs(dirs) ==
    IF dirs = {}
    THEN <<>>
    ELSE LET first == CHOOSE d \in dirs : \A e \in dirs \ {d} : NameBefore(d.name, e.name)
         IN  <<first>> \o SortedDirs(dirs \ {first})

\* load_prowler_findings 73-75: the loop over the account directories; an
\* exception of one directory leaves the loop
RECURSIVE LoadAccounts(_, _, _)
LoadAccounts(account_dirs, i, all_findings) ==
    IF i > Len(account_dirs)
    THEN Returned(all_findings)
    ELSE LET loaded == load_prowler_from_dir(account_dirs[i].files)
         IN  IF loaded.raised # ""
             THEN loaded
             ELSE LoadAccounts(account_dirs, i + 1, all_findings \o loaded.value)

\* load_prowler_findings 46-82; iterdir() of an absent directory raises
load_prowler_findings(prowler) ==
    IF ~prowler.exists
    THEN Raised("FileNotFoundError")
    ELSE LET account_dirs == {d \in prowler.subdirs : IsDigit(d.name)}
         IN  IF account_dirs # {}
             THEN LoadAccounts(SortedDirs(account_dirs), 1, <<>>)
             ELSE load_prowler_from_dir(prowler.files)

\* one flagged-finding group of a ScoutSuite result; flagged_items and items
\* are always written (get() reads an absent one as 0 and as []), level may
\* be absent (None)
FindingData(flagged_items, items, level) ==
    [flagged_items |-> flagged_items, items |-> items, level |-> level]

\* item_id.split('.')[-1]: the tokens after the last "."
RECURSIVE LastPart(_)
LastPart(item_id) ==
    IF item_id = <<>> \/ item_id[Len(item_id)] = "."
    THEN <<>>
    ELSE Append(LastPart(SubSeq(item_id, 1, Len(item_id) - 1)), item_id[Len(item_id)])

normalize_scoutsuite_finding_RawLevel(finding_id, finding_data, service_name, item_id) ==
    [source         |-> T("ScoutSuite"),
     cloud_provider |-> T("Azure"),
     finding_id     |-> finding_id,
     severity       |-> Get(finding_data.level, T("warning")),
     status         |-> T("FAIL"),
     resource       |-> Get(item_id, service_name),
     region         |-> T("global"),
     account_id     |-> Empty]

\* _normalize_scoutsuite_finding 371-405
normalize_scoutsuite_finding(finding_id, finding_data, service_name, item_id) ==
    LET level == Get(finding_data.level, T("warning"))
        severity == CASE level = T("danger")  -> T("High")
                      [] level = T("warning") -> T("Medium")
                      [] level = T("info")    -> T("Low")
                      [] OTHER                -> T("Medium")
        resource == IF Truthy(item_id) /\ Contains(item_id, ".")
                    THEN LastPart(item_id)
                    ELSE IF Truthy(item_id)
                    THEN item_id
                    ELSE service_name \o T(" (multiple resources)")
    IN  [source         |-> T("ScoutSuite"),
         cloud_provider |-> T("Azure"),
         finding_id     |-> finding_id,
         severity       |-> severity,
         status         |-> T("FAIL"),
         resource       |-> resource,
         region         |-> T("global"),
         account_id     |-> Empty]

\* load_scoutsuite_findings 190-194: one finding per affected resource
RECURSIVE PerItem(_, _, _, _, _)
PerItem(finding_id, finding_data, service_name, items, i) ==
    IF i > Len(items)
    THEN <<>>
    ELSE <<normalize_scoutsuite_finding(finding_id, finding_data, service_name, items[i])>>
         \o PerItem(finding_id, finding_data, service_name, items, i + 1)

\* load_scoutsuite_findings 175-194: the findings of one service
RECURSIVE PerFinding(_, _, _)
PerFinding(service_name, service_findings, i) ==
    IF i > Len(service_findings)
    THEN <<>>
    ELSE LET finding_id    == service_findings[i].id
             finding_data  == service_findings[i].data
             flagged_items == finding_data.flagged_items
             items         == finding_data.items
             here == IF flagged_items > 0
                     THEN IF items = <<>>
                          THEN <<normalize_scoutsuite_finding(finding_id, finding_data,
                                                              service_name, None)>>
                          ELSE PerItem(finding_id, finding_data, service_name, items, 1)
                     ELSE <<>>
         IN  here \o PerFinding(service_name, service_findings, i + 1)

\* load_scoutsuite_findings 172-194: the loop over the services
RECURSIVE PerService(_, _)
PerService(services, i) ==
    IF i > Len(services)
    THEN <<>>
    ELSE PerFinding(services[i].name, services[i].findings, 1) \o PerService(services, i + 1)

\* load_scoutsuite_findings 117-197
load_scoutsuite_findings(scout) ==
    IF ~scout.exists
    THEN Returned(<<>>)
    ELSE LET result_files == {f \in scout.files : f.kind = "scoutsuite_results_azure-*.js"}
         IN  IF result_files = {}
             THEN Returned(<<>>)
             ELSE LET content == LatestFile(result_files).content
                  IN  IF ~content.has_marker
                      THEN Returned(<<>>)
                      ELSE IF ~content.decodes
                      THEN Returned(<<>>)
                      ELSE Returned(PerService(content.services, 1))

\* aggregate_findings 461-472: an exception of a loader leaves the method
aggregate_findings(inputs) ==
    LET prowler_findings == load_prowler_findings(inputs.prowler)
    IN  IF prowler_findings.raised # ""
        THEN prowler_findings
        ELSE LET scoutsuite_findings == load_scoutsuite_findings(inputs.scout)
             IN  IF scoutsuite_findings.raised # ""
                 THEN scoutsuite_findings
                 ELSE Returned(prowler_findings.value \o scoutsuite_findings.value)

Incr_SetOne(d, k) == IF k \in DOMAIN d THEN d ELSE d @@ (k :> 1)

\* d[k] = d.get(k, 0) + 1
Incr(d, k) == IF k \in DOMAIN d THEN [d EXCEPT ![k] = @ + 1] ELSE d @@ (k :> 1)

\* generate_summary 503-519: the counting loop
RECURSIVE CountLoop(_, _, _)
CountLoop(fs, i, acc) ==
    IF i > Len(fs)
    THEN acc
    ELSE LET finding == fs[i]
             account == finding.account_id
         IN  CountLoop(fs, i + 1,
                 [by_severity       |-> Incr(acc.by_severity, finding.severity),
                  by_cloud_provider |-> Incr(acc.by_cloud_provider, finding.cloud_provider),
                  by_source         |-> Incr(acc.by_source, finding.source),
                  by_account        |-> IF Truthy(account)
                                        THEN Incr(acc.by_account, account)
                                        ELSE acc.by_account,
                  accounts          |-> IF Truthy(account) /\ account \notin DOMAIN acc.by_account
                                        THEN Append(acc.accounts, account)
                                        ELSE acc.accounts])

\* generate_summary 474-531 (without the wall-clock timestamp)
generate_summary(fs) ==
    IF fs = <<>>
    THEN [total_findings |-> 0, by_severity |-> EmptyDict, by_cloud_provider |-> EmptyDict,
          by_source |-> EmptyDict, by_account |-> EmptyDict, accounts |-> <<>>]
    ELSE LET counted == CountLoop(fs, 1,
                            [by_severity |-> EmptyDict, by_cloud_provider |-> EmptyDict,
                             by_source |-> EmptyDict, by_account |-> EmptyDict,
                             accounts |-> <<>>])
         IN  [total_findings    |-> Len(fs),
              by_severity       |-> counted.by_severity,
              by_cloud_provider |-> counted.by_cloud_provider,
              by_source         |-> counted.by_source,
              by_account        |-> counted.by_account,
              accounts          |-> counted.accounts]

\* ------------------------------------------------------------------------
\* The scanners' output the aggregator may find
\* ------------------------------------------------------------------------

sCriticalLower == <<"c","r","i","t","i","c","a","l">>

OtherAccount == T("999999999999")

CheckEncryption == Check(T("FAIL"), T("s3_bucket_default_encryption"), sCriticalLower,
                         BucketA, UsEast1, AccountId)
CheckPassed     == Check(T("PASS"), T("s3_bucket_versioning_enabled"), sLow,
                         BucketA, UsEast1, AccountId)
CheckBare       == Check(T("FAIL"), None, None, None, None, None)
CheckAnalyzer   == Check(T("FAIL"), T("accessanalyzer_enabled"), sHigh,
                         OtherAccount, UsEast1, OtherAccount)

CheckManual     == Check(T("MANUAL"), T("iam_root_mfa_enabled"), sHigh,
                         AccountId, UsEast1, AccountId)

RawPool == {CheckEncryption, CheckPassed, CheckBare, CheckAnalyzer, CheckManual}

ProwlerContents == {Malformed} \cup {Decoded(L) : L \in SeqsUpTo(RawPool, MaxRecords)}

ProwlerJson(ctime, content) == ScanFile("prowler-output-*.json", ctime, content)

\* the files of the Prowler output root
RootFileSets ==
    {{}} \cup {{ProwlerJson(2, c)} : c \in ProwlerContents}
         \cup {{ProwlerJson(1, Decoded(<<CheckEncryption>>)), ProwlerJson(2, c)} :
                  c \in {Malformed, Decoded(<<>>), Decoded(<<CheckAnalyzer>>)}}
         \cup {{ProwlerJson(1, Decoded(<<CheckAnalyzer>>)),
                ScanFile("prowler-output-*.ocsf.json", 2, Malformed)}}

Dir(name, files) == [name |-> name, files |-> files]

\* the subdirectories of the Prowler output root
SubdirSets ==
    { {},
      { Dir(<<"2","2","2">>, {ProwlerJson(1, Decoded(<<CheckEncryption>>))}),
        Dir(<<"1","1","1","1">>, {ProwlerJson(1, Decoded(<<CheckAnalyzer>>))}) },
      { Dir(<<"2","2","2">>, {ProwlerJson(1, Malformed)}),
        Dir(<<"1","1","1","1">>, {ProwlerJson(1, Decoded(<<CheckAnalyzer>>))}) },
      { Dir(<<"c","o","m","p","l","i","a","n","c","e">>,
            {ProwlerJson(1, Decoded(<<CheckEncryption>>))}) },
      { Dir(<<"2","2","2">>, {}) } }

ProwlerLayouts ==
    { [exists |-> FALSE, files |-> {}, subdirs |-> {}] }
    \cup [exists : {TRUE}, files : RootFileSets, subdirs : SubdirSets]

ScoutContent(has_marker, decodes, services) ==
    [has_marker |-> has_marker, decodes |-> decodes, services |-> services]

StorageServices ==
    << [name |-> T("storageaccounts"),
        findings |-> << [id |-> T("storageaccount-public-traffic-allowed"),
                         data |-> FindingData(2, << <<"subscriptions", ".", "sub1", ".", "storage1">>,
                                                    T("storage2") >>, T("danger"))],
                        [id |-> T("storageaccount-encrypted"),
                         data |-> FindingData(0, <<>>, T("info"))] >>] >>

NetworkServices ==
    << [name |-> T("network"),
        findings |-> << [id |-> T("network-security-groups-rule-inbound"),
                         data |-> FindingData(1, <<>>, None)] >>] >>

KeyVaultServices ==
    << [name |-> T("keyvault"),
        findings |-> << [id |-> T("keyvault-not-recoverable"),
                         data |-> FindingData(1, <<T("vault1")>>, T("info"))] >>] >>

ScoutContents ==
    { ScoutContent(FALSE, FALSE, <<>>),
      ScoutContent(TRUE, TRUE, KeyVaultServices),
      ScoutContent(TRUE, FALSE, <<>>),
      ScoutContent(TRUE, TRUE, <<>>),
      ScoutContent(TRUE, TRUE, StorageServices),
      ScoutContent(TRUE, TRUE, NetworkServices) }

ScoutJs(ctime, content) == ScanFile("scoutsuite_results_azure-*.js", ctime, content)

\* scoutsuite-report/scoutsuite-results
ScoutLayouts ==
    { [exists |-> FALSE, files |-> {}], [exists |-> TRUE, files |-> {}] }
    \cup { [exists |-> TRUE, files |-> {ScoutJs(1, c)}] : c \in ScoutContents }
    \cup { [exists |-> TRUE,
            files |-> {ScoutJs(1, ScoutContent(TRUE, TRUE, StorageServices)),
                       ScoutJs(2, ScoutContent(TRUE, FALSE, <<>>))}] }

\* ------------------------------------------------------------------------
\* The aggregator, step by step
\* ------------------------------------------------------------------------

\* FindingsAggregator.__init__ 38-44
AggInit ==
    /\ RemIdle
    /\ FnIdle
    /\ scanInputs \in [prowler : ProwlerLayouts, scout : ScoutLayouts]
    /\ agg_pc = "new"
    /\ findings = <<>>
    /\ summary = None
    /\ clock = 0
    /\ timestamp = -1
    /\ pd = FALSE
    /\ run = 0

\* aggregate_findings 461-472; an exception ends the call, self.findings
\* not assigned
AggregateFindings ==
    /\ agg_pc = "new"
    /\ LET r == aggregate_findings(scanInputs)
       IN  IF r.raised # ""
           THEN agg_pc' = r.raised /\ UNCHANGED findings
           ELSE agg_pc' = "aggregated" /\ findings' = r.value
    /\ UNCHANGED <<scanInputs, summary, expVars, remVars, fnVars>>

\* generate_summary 474-531
GenerateSummary ==
    /\ agg_pc = "aggregated"
    /\ summary' = generate_summary(findings)
    /\ agg_pc' = "summarized"
    /\ UNCHANGED <<scanInputs, findings, expVars, remVars, fnVars>>

AggNext == AggregateFindings \/ GenerateSummary

AggSpec == AggInit /\ [][AggNext]_vars

\* ------------------------------------------------------------------------
\* Properties of the aggregation
\* ------------------------------------------------------------------------

AggregationReturned == agg_pc \in {"aggregated", "summarized"}

AggregationRaised == agg_pc \in {"FileNotFoundError", "JSONDecodeError"}

\* the Prowler result files aggregation selects: the latest of every
\* numeric account directory, or the latest of the root without any
SelectedProwlerFiles ==
    LET P == scanInputs.prowler
        pick(files) ==
            LET m == {f \in files : f.kind = "prowler-output-*.json"}
            IN  IF m = {} THEN {} ELSE {LatestFile(m)}
        account_dirs == {d \in P.subdirs : IsDigit(d.name)}
    IN  IF ~P.exists THEN {}
        ELSE IF account_dirs # {} THEN UNION {pick(d.files) : d \in account_dirs}
        ELSE pick(P.files)

\* the ScoutSuite result file aggregation selects
SelectedScoutFiles ==
    LET S == scanInputs.scout
        m == {f \in S.files : f.kind = "scoutsuite_results_azure-*.js"}
    IN  IF ~S.exists \/ m = {} THEN {} ELSE {LatestFile(m)}

ProwlerMalformed == \E f \in SelectedProwlerFiles : ~f.content.decodes

ScoutMalformed == \E f \in SelectedScoutFiles : f.content.has_marker /\ ~f.content.decodes

FromSource(name) == SelectSeq(findings, LAMBDA f : f.source = T(name))

\* what the ScoutSuite result holds, loaded on its own
ScoutFindings == load_scoutsuite_findings(scanInputs.scout).value

\* C7: when the selected result file of one source does not decode and the
\* other source's does, aggregate_findings completes, the malformed source
\* contributes nothing and the other source's findings are all there
C7_MalformedSourceIsolated ==
    agg_pc # "new" =>
        /\ (ScoutMalformed /\ ~ProwlerMalformed /\ scanInputs.prowler.exists) =>
              (AggregationReturned /\ FromSource("ScoutSuite") = <<>>)
        /\ (ProwlerMalformed /\ ~ScoutMalformed) =>
              (/\ AggregationReturned
               /\ FromSource("Prowler") = <<>>
               /\ FromSource("ScoutSuite") = ScoutFindings)

\* C8: a source for which no result file matches yields no findings and
\* aggregation completes; with no file for either source the finding list is
\* empty and the summary counts nothing
C8_MissingInputNotFatal ==
    agg_pc # "new" =>
        /\ SelectedProwlerFiles = {} =>
              (AggregationReturned /\ FromSource("Prowler") = <<>>)
        /\ (SelectedScoutFiles = {} /\ AggregationReturned) =>
              FromSource("ScoutSuite") = <<>>
        /\ (SelectedProwlerFiles = {} /\ SelectedScoutFiles = {}) =>
              /\ findings = <<>>
              /\ agg_pc = "summarized" =>
                    /\ summary.total_findings = 0
                    /\ DOMAIN summary.by_severity = {}
                    /\ DOMAIN summary.by_cloud_provider = {}
                    /\ DOMAIN summary.by_source = {}
                    /\ DOMAIN summary.by_account = {}

\* ------------------------------------------------------------------------
\* The normalizers called on their own
\* ------------------------------------------------------------------------

\* longest raw severity string enumerated letter by letter
MaxSeverityLen == 3

SeverityAlphabet == {"l", "L", "o", "O", "w", "W", "x"}

sCritical      == <<"c","r","i","t","i","c","a","l">>
sMedium        == <<"m","e","d","i","u","m">>
sInfo          == <<"i","n","f","o">>
sInformational == <<"i","n","f","o","r","m","a","t","i","o","n","a","l">>
sUnknown       == <<"u","n","k","n","o","w","n">>

\* str.capitalize()
Capitalize(s) == IF s = <<>> THEN s ELSE <<Upper(s)[1]>> \o SubSeq(s, 2, Len(s))

SeverityNames == {sCritical, sHighLower, sMedium, Lower(sLow), sInfo, sInformational}

\* raw severity strings a scanner file may carry
SeverityStrings ==
    SeqsUpTo(SeverityAlphabet, MaxSeverityLen)
    \cup SeverityNames
    \cup {Upper(s) : s \in SeverityNames}
    \cup {Capitalize(s) : s \in SeverityNames}
    \cup {sUnknown, Empty, <<"i","n","f">>, sHighLower \o <<" ">>, <<"H","i","G","h">>}

\* raw Severity values of the checks normalized on their own
CheckSeverities ==
    {None, Empty, sUnknown, sCritical, sHigh, sHighUpper, Upper(sInfo), sMedium, <<"l","O","w">>}

ChecksToNormalize ==
    { Check(st, id, sev, res, reg, acct) :
        st \in {T("FAIL"), T("PASS"), None},
        id \in {None, T("s3_bucket_default_encryption")},
        sev \in CheckSeverities,
        res \in {None, Empty, BucketA},
        reg \in {None, UsEast1},
        acct \in {None, AccountId} }

\* raw level values of a ScoutSuite finding
ScoutLevels == {None, Empty, T("danger"), T("warning"), T("info"), T("Danger"), T("critical")}

DottedItem == <<"subscriptions", ".", "sub1", ".", "storage1">>

\* a text of blanks only
Blank == <<" ", "\n">>

\* " aws s3 mb s3://<BUCKET> --region <REGION>\n"
CliText ==
    <<" ","a","w","s"," ","s","3"," ","m","b"," ","s","3",":","/","/","<","B",
      "U","C","K","E","T",">"," ","-","-","r","e","g","i","o","n"," ","<","R",
      "E","G","I","O","N",">","\n">>

\* "resource {}"
TerraformText ==
    <<"r","e","s","o","u","r","c","e"," ","{","}">>

\* "Type: AWS::S3::Bucket "
NativeIaCText ==
    <<"T","y","p","e",":"," ","A","W","S",":",":","S","3",":",":","B","u","c",
      "k","e","t"," ">>

\* "see <docs>"
OtherText ==
    <<"s","e","e"," ","<","d","o","c","s",">">>

\* "Enable it." : one sentence of ten characters
ShortSummary ==
    <<"E","n","a","b","l","e"," ","i","t",".">>

\* "Enable bucket versioning. Turn on MFA delete."
TwoSentences ==
    <<"E","n","a","b","l","e"," ","b","u","c","k","e","t"," ","v","e","r","s",
      "i","o","n","i","n","g","."," ","T","u","r","n"," ","o","n"," ","M","F",
      "A"," ","d","e","l","e","t","e",".">>

\* "a. b. c. d. e. Enable default encryption." : five short sentences and a
\* long one
SixSentences ==
    <<"a","."," ","b","."," ","c","."," ","d","."," ","e","."," ","E","n","a",
      "b","l","e"," ","d","e","f","a","u","l","t"," ","e","n","c","r","y","p",
      "t","i","o","n",".">>

\* "https://docs.aws.amazon.com/s3"
DocUrl == T("https://docs.aws.amazon.com/s3")

\* the Remediation value of the test fixture, test_scanning.py 25
FixtureRemediation == T("Disable public access on the bucket")

\* the dict {key: v} when present says so, {} otherwise
Opt(present, key, v) == IF present THEN key :> v ELSE EmptyDict

Summaries == {Empty, <<" ">>, ShortSummary, TwoSentences, SixSentences}

RecommendationValues ==
    {PyStr(ShortSummary)}
    \cup { PyDict(Opt(pt, "Text", t) @@ Opt(pu, "Url", DocUrl)) :
             pt \in BOOLEAN, pu \in BOOLEAN, t \in Summaries }

CodeDicts ==
    { Opt(p[1], "CLI", c) @@ Opt(p[2], "Terraform", t)
        @@ Opt(p[3], "NativeIaC", n) @@ Opt(p[4], "Other", o) :
        p \in [1..4 -> BOOLEAN],
        c \in {Empty, Blank, CliText}, t \in {Empty, Blank, TerraformText},
        n \in {Empty, Blank, NativeIaCText}, o \in {Empty, Blank, OtherText} }

CodeValues == {PyStr(CliText)} \cup {PyDict(c) : c \in CodeDicts}

\* Remediation values: the dicts with any of their keys absent, and a string
RemediationInfos ==
    {PyStr(FixtureRemediation)}
    \cup { PyDict(Opt(pr, "Recommendation", r) @@ Opt(pk, "Code", c)) :
             pr \in BOOLEAN, pk \in BOOLEAN, r \in RecommendationValues, c \in CodeValues }

FullRemediation ==
    PyDict([Recommendation |-> PyDict([Text |-> TwoSentences, Url |-> DocUrl]),
            Code |-> PyDict([CLI |-> CliText, Terraform |-> Empty,
                             NativeIaC |-> Blank, Other |-> OtherText])])

\* the Compliance dict as the sequence of its items
ComplianceItems ==
    << <<T("CIS-1.4"), <<T("2.1.1")>> >>, <<T("NIST-800-53"), <<T("SC-28"), T("SC-13")>> >> >>

\* checks with any subset of the remaining fields absent
IncompleteChecks ==
    { Check(T("FAIL"), id, sCritical, res, UsEast1, AccountId)
        @@ Opt(p[1], "CheckTitle", T("Check if S3 buckets have public access"))
        @@ Opt(p[2], "ResourceArn", T("arn:aws:s3:::my-public-bucket"))
        @@ Opt(p[3], "Description", T("Bucket allows public access"))
        @@ Opt(p[4], "StatusExtended", T("Bucket my-public-bucket is public"))
        @@ Opt(p[5], "Risk", T("Data exposure"))
        @@ Opt(p[6], "Compliance", c)
        @@ Opt(p[7], "Remediation", r) :
        id \in {None, T("check_s3_bucket_public_access")},
        res \in {None, BucketA},
        p \in [1..7 -> BOOLEAN],
        c \in {<<>>, ComplianceItems},
        r \in {PyStr(FixtureRemediation), PyDict(EmptyDict), FullRemediation} }

NormalizeInputs ==
    [op : {"map_severity"}, severity : SeverityStrings]
    \cup [op : {"normalize_prowler_finding"}, check : ChecksToNormalize \cup IncompleteChecks]
    \cup [op : {"extract_prowler_remediation"}, remediation_info : RemediationInfos]
    \cup [op : {"normalize_scoutsuite_finding"},
          finding_id : {T("storageaccount-public-traffic-allowed")},
          finding_data : {FindingData(n, <<>>, level) : n \in {1, 2}, level \in ScoutLevels},
          service_name : {T("storageaccounts")},
          item_id : {None, Empty, T("storage2"), DottedItem}]

NormalizeInit ==
    /\ RemIdle
    /\ AggIdle
    /\ fn_in \in NormalizeInputs
    /\ fn_out = [done |-> FALSE]

\* aggregator._map_severity(severity)
CallMapSeverity ==
    /\ fn_in.op = "map_severity"
    /\ ~fn_out.done
    /\ fn_out' = [done |-> TRUE, value |-> map_severity(fn_in.severity)]
    /\ UNCHANGED <<fn_in, remVars, aggVars>>

\* aggregator._normalize_prowler_finding(check)
CallNormalizeProwler ==
    /\ fn_in.op = "normalize_prowler_finding"
    /\ ~fn_out.done
    /\ fn_out' = [done |-> TRUE, value |-> normalize_prowler_finding(fn_in.check)]
    /\ UNCHANGED <<fn_in, remVars, aggVars>>

\* aggregator._normalize_scoutsuite_finding(finding_id, finding_data, service_name, item_id)
CallNormalizeScoutSuite ==
    /\ fn_in.op = "normalize_scoutsuite_finding"
    /\ ~fn_out.done
    /\ fn_out' = [done |-> TRUE,
                  value |-> normalize_scoutsuite_finding(fn_in.finding_id, fn_in.finding_data,
                                                         fn_in.service_name, fn_in.item_id)]
    /\ UNCHANGED <<fn_in, remVars, aggVars>>

\* aggregator._extract_prowler_remediation(remediation_info)
CallExtractRemediation ==
    /\ fn_in.op = "extract_prowler_remediation"
    /\ ~fn_out.done
    /\ fn_out' = [done |-> TRUE, value |-> extract_prowler_remediation(fn_in.remediation_info)]
    /\ UNCHANGED <<fn_in, remVars, aggVars>>

NormalizeNext ==
    \/ CallMapSeverity
    \/ CallNormalizeProwler
    \/ CallNormalizeScoutSuite
    \/ CallExtractRemediation

NormalizeSpec == NormalizeInit /\ [][NormalizeNext]_vars

\* ------------------------------------------------------------------------
\* Properties of the normalizers
\* ------------------------------------------------------------------------

SeverityEnumeration ==
    {T("Critical"), T("High"), T("Medium"), T("Low"), T("Informational")}

\* the standard level a raw severity names when case is ignored
StandardLevel ==
    ( sCritical      :> T("Critical") ) @@
    ( sHighLower     :> T("High") ) @@
    ( sMedium        :> T("Medium") ) @@
    ( Lower(sLow)    :> T("Low") ) @@
    ( sInfo          :> T("Informational") ) @@
    ( sInformational :> T("Informational") )

Recognized(raw) == \E k \in DOMAIN StandardLevel : SameIgnoringCase(raw, k)

Called(op) == fn_in.op = op /\ fn_out.done

\* C11: a finding normalized from a Prowler check or from a ScoutSuite
\* finding group, whatever its raw severity or level, has a severity of the
\* five-level enumeration, and Medium when the raw value maps to nothing
C11_SeverityInEnumeration ==
    /\ Called("normalize_prowler_finding") =>
          /\ fn_out.value.severity \in SeverityEnumeration
          /\ ~Recognized(Get(fn_in.check.Severity, sMedium)) =>
                fn_out.value.severity = T("Medium")
    /\ Called("normalize_scoutsuite_finding") =>
          /\ fn_out.value.severity \in SeverityEnumeration
          /\ fn_in.finding_data.level \notin {T("danger"), T("warning"), T("info")} =>
                fn_out.value.severity = T("Medium")

C11_Witness ==
    /\ Called("normalize_scoutsuite_finding")
    /\ fn_in.finding_data.level = T("critical")
    /\ fn_out.value.severity = T("Medium")

\* C12: _map_severity returns, for every string, the standard level the
\* string names when case is ignored (CRITICAL, HIGH, MEDIUM, LOW, INFO,
\* INFORMATIONAL) and Medium for every other string, the empty one included
C12_MapSeverityTotal ==
    Called("map_severity") =>
        /\ fn_out.value \in SeverityEnumeration
        /\ \A k \in DOMAIN StandardLevel :
              SameIgnoringCase(fn_in.severity, k) => fn_out.value = StandardLevel[k]
        /\ ~Recognized(fn_in.severity) => fn_out.value = T("Medium")

C12_Witness ==
    /\ Called("map_severity")
    /\ fn_in.severity = <<"l","O","W">>
    /\ fn_out.value = T("Low")

\* ------------------------------------------------------------------------
\* Properties of the Prowler loader
\* ------------------------------------------------------------------------

\* one normalized finding per FAIL record, in file order
NormalizedFails(records) ==
    LET fails == SelectSeq(records, LAMBDA c : c.Status = T("FAIL"))
    IN  [i \in 1..Len(fails) |-> normalize_prowler_finding(fails[i])]

SingleAccountLayout == \A d \in scanInputs.prowler.subdirs : ~IsDigit(d.name)

\* C13: the findings loaded from a Prowler result file are exactly one
\* normalized finding per record whose Status is FAIL, in file order:
\* repeated records are all kept, records of any other status never appear
C13_OnlyFailedRecords ==
    AggregationReturned =>
        /\ \A i \in 1..Len(FromSource("Prowler")) : FromSource("Prowler")[i].status = T("FAIL")
        /\ SingleAccountLayout =>
              \A f \in SelectedProwlerFiles :
                  FromSource("Prowler") = NormalizedFails(f.content.records)

C13_Witness ==
    /\ AggregationReturned
    /\ SingleAccountLayout
    /\ \E f \in SelectedProwlerFiles :
          /\ f.content.records = <<CheckEncryption, CheckManual>>
             \/ f.content.records = <<CheckPassed, CheckEncryption>>
          /\ Len(FromSource("Prowler")) = 1
    /\ Len(findings) > 1

C13_WitnessDuplicates ==
    /\ AggregationReturned
    /\ SingleAccountLayout
    /\ \E f \in SelectedProwlerFiles :
          /\ f.content.records = <<CheckEncryption, CheckEncryption>>
          /\ Len(FromSource("Prowler")) = 2

\* ------------------------------------------------------------------------
\* Properties of the summary
\* ------------------------------------------------------------------------

\* how many of the current findings have the field equal to k
CountWhere(field(_), k) == Cardinality({i \in 1..Len(findings) : field(findings[i]) = k})

ValuesOf(field(_)) == {field(findings[i]) : i \in 1..Len(findings)}

RECURSIVE SumValues(_)
SumValues(d) ==
    IF DOMAIN d = {}
    THEN 0
    ELSE LET k == CHOOSE x \in DOMAIN d : TRUE
         IN  d[k] + SumValues([x \in DOMAIN d \ {k} |-> d[x]])

\* the map counts exactly the findings, key by key
Recount(d, field(_)) ==
    /\ DOMAIN d = ValuesOf(field)
    /\ \A k \in DOMAIN d : d[k] = CountWhere(field, k)
    /\ SumValues(d) = Len(findings)

\* C14: the summary is a recount of the current finding list: total_findings
\* is its length and by_severity, by_cloud_provider and by_source hold, at
\* each key, the number of findings with that field value, so that each
\* map's values sum to total_findings
C14_SummaryIsRecount ==
    agg_pc = "summarized" =>
        /\ summary.total_findings = Len(findings)
        /\ Recount(summary.by_severity, LAMBDA f : f.severity)
        /\ Recount(summary.by_cloud_provider, LAMBDA f : f.cloud_provider)
        /\ Recount(summary.by_source, LAMBDA f : f.source)

C14_Witness ==
    /\ agg_pc = "summarized"
    /\ summary.total_findings = 3
    /\ summary.by_severity = (T("Critical") :> 2) @@ (T("Low") :> 1)
    /\ summary.by_source = (T("Prowler") :> 2) @@ (T("ScoutSuite") :> 1)

\* ------------------------------------------------------------------------
\* Aggregation runs that export, and the consumers of what they wrote
\* ------------------------------------------------------------------------

\* aggregation runs started in one behaviour
MaxRuns == 3

\* last tick the wall clock is followed to
MaxClock == 5

\* clock ticks in one second: datetime.now() is finer than the suffix
TicksPerSecond == 2

\* strftime("%Y%m%d_%H%M%S"): the clock truncated to the second
Stamp(now) == now \div TicksPerSecond

\* the creation time the file system gives the next file written
NextCtime(dir) ==
    IF dir = {} THEN 1 ELSE 1 + (CHOOSE n \in {f.ctime : f \in dir} : \A f \in dir : f.ctime <= n)

\* open(path, 'w') and dump: a file of that name is replaced
WriteFile(dir, kind, suffix, content) ==
    {f \in dir : ~(f.kind = kind /\ f.suffix = suffix)}
    \cup {File(kind, suffix, NextCtime(dir), content)}

\* the scanner outputs an exporting run may find
ExportLayouts ==
    { [prowler |-> [exists |-> TRUE, files |-> {}, subdirs |-> {}],
       scout   |-> [exists |-> FALSE, files |-> {}]],
      [prowler |-> [exists |-> TRUE,
                    files |-> {ProwlerJson(1, Decoded(<<CheckEncryption>>))},
                    subdirs |-> {}],
       scout   |-> [exists |-> FALSE, files |-> {}]],
      [prowler |-> [exists |-> TRUE,
                    files |-> {ProwlerJson(1, Decoded(<<CheckEncryption, CheckAnalyzer>>))},
                    subdirs |-> {}],
       scout   |-> [exists |-> TRUE,
                    files |-> {ScoutJs(1, ScoutContent(TRUE, TRUE, KeyVaultServices))}]] }

\* nothing has run; pandas is installed or not
ExportInit ==
    /\ RemIdle
    /\ FnIdle
    /\ scanInputs = [prowler |-> [exists |-> FALSE], scout |-> [exists |-> FALSE]]
    /\ agg_pc = "idle"
    /\ findings = <<>>
    /\ summary = None
    /\ clock = 0
    /\ timestamp = -1
    /\ pd \in BOOLEAN
    /\ run = 0

\* time passes
Tick ==
    /\ clock < MaxClock
    /\ clock' = clock + 1
    /\ UNCHANGED <<scanInputs, agg_pc, findings, summary, timestamp, pd, run, remVars, fnVars>>

\* main 600-631 and __init__ 38-44: a new process, some time after the
\* last one, builds an aggregator over what the scanners left
StartRun ==
    /\ agg_pc \in {"idle", "exported"}
    /\ run < MaxRuns
    /\ run' = run + 1
    /\ clock' = clock + 1
    /\ scanInputs' \in ExportLayouts
    /\ dirExists' = TRUE
    /\ agg_pc' = "new"
    /\ findings' = <<>>
    /\ summary' = None
    /\ UNCHANGED <<timestamp, pd, fnVars, pc, outputDir, args, response, dry_run, results,
                   unique_findings, idx, calls, commands, exit_code>>

\* export_results 544-549: the suffix is taken and the findings are dumped
ExportJson ==
    /\ agg_pc = "aggregated"
    /\ run > 0
    /\ timestamp' = Stamp(clock)
    /\ outputDir' = WriteFile(outputDir, "aggregated_findings_json", timestamp', findings)
    /\ agg_pc' = "json_written"
    /\ UNCHANGED <<scanInputs, findings, summary, clock, pd, run, fnVars, pc, dirExists, args,
                   response, dry_run, results, unique_findings, idx, calls, commands, exit_code>>

\* export_results 552-558: the CSV, when there are findings and pandas
ExportCsv ==
    /\ agg_pc = "json_written"
    /\ outputDir' = IF findings # <<>> /\ pd
                    THEN WriteFile(outputDir, "aggregated_findings_csv", timestamp, findings)
                    ELSE outputDir
    /\ agg_pc' = "csv_done"
    /\ UNCHANGED <<scanInputs, findings, summary, expVars, fnVars, pc, dirExists, args,
                   response, dry_run, results, unique_findings, idx, calls, commands, exit_code>>

\* export_results 561-565: the summary is computed and dumped
ExportSummary ==
    /\ agg_pc = "csv_done"
    /\ summary' = generate_summary(findings)
    /\ outputDir' = WriteFile(outputDir, "findings_summary_json", timestamp, summary')
    /\ agg_pc' = "exported"
    /\ UNCHANGED <<scanInputs, findings, expVars, fnVars, pc, dirExists, args,
                   response, dry_run, results, unique_findings, idx, calls, commands, exit_code>>

\* app.py load_latest_findings 51-75
app_load_latest_findings(exists, dir) ==
    IF ~exists
    THEN <<>>
    ELSE LET finding_files == Glob(dir, "aggregated_findings_json")
         IN  IF finding_files = {} THEN <<>> ELSE LatestFile(finding_files).content

\* app.py load_latest_summary 78-93; {} is the empty dict
app_load_latest_summary(exists, dir) ==
    IF ~exists
    THEN EmptyDict
    ELSE LET summary_files == Glob(dir, "findings_summary_json")
         IN  IF summary_files = {} THEN EmptyDict ELSE LatestFile(summary_files).content

\* the dashboard serves a request that loads the findings
DashboardLoadFindings ==
    /\ fn_in' = [op |-> "app.load_latest_findings"]
    /\ fn_out' = [done |-> TRUE, value |-> app_load_latest_findings(dirExists, outputDir)]
    /\ UNCHANGED <<remVars, aggVars>>

\* the dashboard serves a request that loads the summary
DashboardLoadSummary ==
    /\ fn_in' = [op |-> "app.load_latest_summary"]
    /\ fn_out' = [done |-> TRUE, value |-> app_load_latest_summary(dirExists, outputDir)]
    /\ UNCHANGED <<remVars, aggVars>>

\* the remediation engine loads the findings
EngineLoadFindings ==
    /\ fn_in' = [op |-> "engine.load_latest_findings"]
    /\ fn_out' = [done |-> TRUE, value |-> load_latest_findings(outputDir)]
    /\ UNCHANGED <<remVars, aggVars>>

ExportNext ==
    \/ Tick
    \/ StartRun
    \/ AggregateFindings
    \/ ExportJson
    \/ ExportCsv
    \/ ExportSummary
    \/ DashboardLoadFindings
    \/ DashboardLoadSummary
    \/ EngineLoadFindings

ExportSpec == ExportInit /\ [][ExportNext]_vars

\* ------------------------------------------------------------------------
\* Properties of the exported artifacts
\* ------------------------------------------------------------------------

Artifacts(kind) == Glob(outputDir, kind)

\* C15: no run being under way, the artifacts with one suffix describe one
\* finding set: the summary is the summary of the findings JSON of that
\* suffix, and the CSV holds the findings of that JSON
C15_EqualSuffixSameFindings ==
    agg_pc \in {"idle", "exported"} =>
        \A j \in Artifacts("aggregated_findings_json") :
            /\ \A s \in Artifacts("findings_summary_json") :
                  s.suffix = j.suffix => s.content = generate_summary(j.content)
            /\ \A c \in Artifacts("aggregated_findings_csv") :
                  c.suffix = j.suffix => c.content = j.content

\* C16: no step of any run overwrites, modifies or deletes an artifact that
\* is already there: every file stays, with its content and creation time
C16_ArtifactsNeverOverwritten ==
    [][\A f \in outputDir : f \in outputDir']_vars

\* the consumer that read in this step
ReadBy(op) == fn_in'.op = op /\ <<fn_in, fn_out>>' # <<fn_in, fn_out>>

\* C17: whenever a consumer reads after a completed run, the dashboard's
\* and the engine's load_latest_findings return the finding list the most
\* recent run wrote and load_latest_summary returns that run's summary
C17_ConsumersSeeLastRun ==
    [][agg_pc = "exported" =>
          /\ ReadBy("app.load_latest_findings") => fn_out'.value = findings
          /\ ReadBy("app.load_latest_summary") => fn_out'.value = summary
          /\ ReadBy("engine.load_latest_findings") =>
                fn_out'.value = [raised |-> FALSE, findings |-> findings]]_vars

C17_Witness ==
    /\ agg_pc = "exported"
    /\ run = 3
    /\ Cardinality(Artifacts("aggregated_findings_json")) > 1
    /\ fn_in.op = "app.load_latest_summary"
    /\ fn_out.value = summary
    /\ summary.total_findings = 1

\* ------------------------------------------------------------------------
\* Properties of the multi-account discovery
\* ------------------------------------------------------------------------

NumericDirs == {d \in scanInputs.prowler.subdirs : IsDigit(d.name)}

\* the findings of the latest Prowler result file among `files`
LatestFileFindings(files) ==
    LET m == {f \in files : f.kind = "prowler-output-*.json"}
    IN  IF m = {} THEN <<>> ELSE NormalizedFails(LatestFile(m).content.records)

\* the numeric directories, one after the other, names ascending
DirsInOrder ==
    CHOOSE order \in [1..Cardinality(NumericDirs) -> NumericDirs] :
        \A i, j \in DOMAIN order : i < j => NameBefore(order[i].name, order[j].name)

RECURSIVE ConcatFindings(_, _)
ConcatFindings(order, i) ==
    IF i > Len(order)
    THEN <<>>
    ELSE LatestFileFindings(order[i].files) \o ConcatFindings(order, i + 1)

\* C18: with at least one purely numeric subdirectory under the Prowler
\* root the loaded findings are those of the latest result file of each
\* such subdirectory, concatenated in sorted directory order, the files of
\* the root not being read; without one they are those of the latest
\* result file of the root
C18_MultiAccountDiscovery ==
    AggregationReturned =>
        FromSource("Prowler") = IF NumericDirs # {}
                                THEN ConcatFindings(DirsInOrder, 1)
                                ELSE LatestFileFindings(scanInputs.prowler.files)

C18_Witness ==
    /\ AggregationReturned
    /\ Cardinality(NumericDirs) = 2
    /\ \E f \in scanInputs.prowler.files :
          f.kind = "prowler-output-*.json" /\ f.content.records = <<CheckBare>>
    /\ FromSource("Prowler") = << normalize_prowler_finding(CheckAnalyzer),
                                  normalize_prowler_finding(CheckEncryption) >>

\* ------------------------------------------------------------------------
\* Properties of the result buckets
\* ------------------------------------------------------------------------

Buckets == {"fixed", "failed", "skipped", "manual"}

\* the pair a result entry carries for the finding
RecordedPair(f) == <<Get(f.finding_id, T("unknown")), Get(f.resource, T("unknown"))>>

EntriesIn(bucket, p) ==
    Cardinality({i \in 1..Len(results[bucket]) :
                    <<results[bucket][i].finding_id, results[bucket][i].resource>> = p})

EntriesFor(p) ==
    EntriesIn("fixed", p) + EntriesIn("failed", p) + EntriesIn("skipped", p) + EntriesIn("manual", p)

ProcessedWith(p) == Cardinality({i \in 1..Len(Processed) : RecordedPair(Processed[i]) = p})

\* C19: every unique finding the loop has handled has exactly one entry, in
\* one of the four buckets fixed, failed, skipped, manual; once run() has
\* returned all unique findings are handled and the bucket sizes sum to
\* their number
C19_ExactlyOneTerminalState ==
    /\ DOMAIN results = Buckets
    /\ TotalEntries = Len(Processed)
    /\ \A i \in 1..Len(Processed) :
          EntriesFor(RecordedPair(Processed[i])) = ProcessedWith(RecordedPair(Processed[i]))
    /\ RunReturned =>
          /\ Processed = unique_findings
          /\ TotalEntries = Len(unique_findings)
          /\ \A k \in SelectedKeys : \E i \in 1..Len(unique_findings) : DedupKey(unique_findings[i]) = k

C19_Witness ==
    /\ RunReturned
    /\ Len(unique_findings) = 2
    /\ Len(results.manual) = 1
    /\ Len(results.failed) = 1
    /\ EntriesFor(RecordedPair(unique_findings[1])) = 1

\* ------------------------------------------------------------------------
\* Properties of the fixers' validation
\* ------------------------------------------------------------------------

S3BucketFixers == {"fix_s3_default_encryption", "fix_s3_public_access_block",
                   "fix_s3_versioning", "fix_s3_logging"}

\* the field the fixer's command is built from is empty, absent, or (for a
\* bucket) the account identifier
MissingRequiredField(fixer, f) ==
    \/ fixer \in S3BucketFixers /\ (~Truthy(f.resource) \/ f.resource = f.account_id)
    \/ fixer = "fix_account_level_public_access_block" /\ ~Truthy(f.account_id)
    \/ fixer = "fix_iam_access_analyzer" /\ f.region = Empty

\* the loop of run() handles a finding that has a registered fixer
RemediatesWith(fixer) ==
    /\ pc = "loop"
    /\ idx' = idx + 1
    /\ ~Unsupported(unique_findings[idx])
    /\ REMEDIATION_MAP[unique_findings[idx].finding_id] = fixer

\* C20: whatever the mode, every registered fixer handed a finding whose
\* required field is missing or is the account identifier returns false
\* with a reason, the finding is filed under failed and no external command
\* is issued
C20_FixersValidate ==
    [][\A fixer \in {REMEDIATION_MAP[k] : k \in DOMAIN REMEDIATION_MAP} :
          (RemediatesWith(fixer) /\ MissingRequiredField(fixer, unique_findings[idx])) =>
              /\ commands' = commands
              /\ ~calls'[Len(calls')].success
              /\ Len(results'.failed) = Len(results.failed) + 1
              /\ results'.fixed = results.fixed
              /\ results'.manual = results.manual]_vars

\* ------------------------------------------------------------------------
\* Properties of the fixers in apply mode
\* ------------------------------------------------------------------------

\* the fixer invocation this step made
ThisCall == calls'[Len(calls')]

\* this step filed its entry under the bucket and under no other
FiledUnder(bucket) ==
    /\ Len(results'[bucket]) = Len(results[bucket]) + 1
    /\ \A b \in Buckets \ {bucket} : results'[b] = results[b]

\* the bucket of a message: manual when it carries the tag, else as given
TaggedOr(bucket) == IF Contains(ThisCall.message, "[MANUAL]") THEN "manual" ELSE bucket

AppliesWith(fixer) == ~dry_run /\ RemediatesWith(fixer)

Fixers == {REMEDIATION_MAP[k] : k \in DOMAIN REMEDIATION_MAP}

\* C21 as stated: in apply mode every fixer invocation that passes the
\* fixer's validation issues exactly one command, and on exit status 0
\* returns true and is filed under fixed
C21_OneCommandPerValidCall ==
    [][\A fixer \in Fixers :
          (AppliesWith(fixer) /\ ValidTarget(fixer, unique_findings[idx])) =>
              /\ Len(commands') = Len(commands) + 1
              /\ \A i \in 1..Len(ThisCall.completed) :
                    ThisCall.completed[i].returncode = 0 =>
                        ThisCall.success /\ FiledUnder("fixed")]_vars

\* C21 amended: in apply mode every invocation of a fixer other than
\* fix_s3_logging that passes the fixer's validation issues exactly one
\* command; on exit status 0 it returns true with the success message and
\* is filed under fixed, or under manual when that message carries the text
\* [MANUAL]
C21_OneCommandPerAutomatedCall ==
    [][\A fixer \in Fixers \ {"fix_s3_logging"} :
          (AppliesWith(fixer) /\ ValidTarget(fixer, unique_findings[idx])) =>
              /\ Len(commands') = Len(commands) + 1
              /\ Len(ThisCall.completed) = 1
              /\ ThisCall.completed[1].returncode = 0 =>
                    /\ ThisCall.success
                    /\ ~Contains(ThisCall.message, "[DRY RUN]")
                    /\ FiledUnder(TaggedOr("fixed"))]_vars

C21_Witness ==
    /\ RunReturned
    /\ ~dry_run
    /\ Len(calls) = 2
    /\ Len(commands) = 2
    /\ Len(results.fixed) = 2
    /\ \A i \in 1..2 : calls[i].completed[1].returncode = 0

ConflictSignature(err) == Contains(err, "ConflictException")

\* C22 as stated: in apply mode a non-zero exit status with the conflict
\* signature in its error output makes the fixer return success, filed
\* under fixed; any other non-zero exit makes it return false with the
\* captured stderr in the message, filed under failed
C22_NonZeroExitBySignature ==
    [][\A fixer \in Fixers :
          (AppliesWith(fixer) /\ ThisCall.completed # <<>>
             /\ ThisCall.completed[1].returncode # 0) =>
              IF ConflictSignature(ThisCall.completed[1].stderr)
              THEN ThisCall.success /\ FiledUnder("fixed")
              ELSE /\ ~ThisCall.success
                   /\ \E k \in 0..Len(ThisCall.message) :
                         SubSeq(ThisCall.message, k + 1, Len(ThisCall.message))
                            = ThisCall.completed[1].stderr
                   /\ FiledUnder("failed")]_vars

\* C22 amended: the conflict signature counts for fix_iam_access_analyzer
\* only; that fixer returns success on it, and every other non-zero exit,
\* of any fixer, returns false with the captured stderr ending the message;
\* the finding is filed under fixed resp. failed, or under manual when the
\* message carries the text [MANUAL]
C22_ConflictOnlyForAnalyzer ==
    [][\A fixer \in Fixers :
          (AppliesWith(fixer) /\ ThisCall.completed # <<>>
             /\ ThisCall.completed[1].returncode # 0) =>
              IF fixer = "fix_iam_access_analyzer"
                 /\ ConflictSignature(ThisCall.completed[1].stderr)
              THEN ThisCall.success /\ FiledUnder(TaggedOr("fixed"))
              ELSE /\ ~ThisCall.success
                   /\ \E k \in 0..Len(ThisCall.message) :
                         SubSeq(ThisCall.message, k + 1, Len(ThisCall.message))
                            = ThisCall.completed[1].stderr
                   /\ FiledUnder(TaggedOr("failed"))]_vars

C22_Witness ==
    /\ RunReturned
    /\ ~dry_run
    /\ Len(calls) = 2
    /\ calls[1].fixer = "fix_iam_access_analyzer"
    /\ ConflictSignature(calls[1].completed[1].stderr)
    /\ Len(results.fixed) = 1
    /\ calls[2].fixer # "fix_iam_access_analyzer"
    /\ calls[2].completed # <<>>
    /\ calls[2].completed[1].returncode # 0
    /\ Len(results.failed) = 1

\* C23: a fixer result whose message carries [MANUAL] is filed under manual
\* and under nothing else, whatever its boolean and the mode; a finding of
\* type s3_bucket_logging_enabled always gets such a result, and no command
\* is issued for it
C23_ManualTagWins ==
    [][\A fixer \in Fixers :
          RemediatesWith(fixer) =>
              /\ Contains(ThisCall.message, "[MANUAL]") => FiledUnder("manual")
              /\ fixer = "fix_s3_logging" =>
                    /\ Contains(ThisCall.message, "[MANUAL]")
                    /\ commands' = commands]_vars

C23_Witness ==
    /\ RunReturned
    /\ ~dry_run
    /\ Len(calls) = 2
    /\ calls[1].fixer = "fix_s3_logging"
    /\ ~calls[1].success
    /\ calls[2].fixer # "fix_s3_logging"
    /\ calls[2].success
    /\ Len(results.manual) = 2
    /\ Len(commands) = 1

\* ------------------------------------------------------------------------
\* An engine whose run() is called more than once
\* ------------------------------------------------------------------------

\* result entries beyond which run() is not called again
MaxResultEntries == 3

\* run() 384-433 called again on the engine that has returned: the findings
\* are loaded, filtered and deduplicated anew, self.results is what the
\* earlier calls left
RunAgain ==
    /\ pc = "exited"
    /\ RunReturned
    /\ TotalEntries < MaxResultEntries
    /\ \E a \in ArgSets :
         /\ a.apply = args.apply
         /\ args' = a
         /\ LET loaded   == load_latest_findings(outputDir)
                selected == filter_findings(loaded.findings, a.finding_type,
                                            a.resource, a.severity)
            IN  /\ ~loaded.raised
                /\ selected # <<>>
                /\ unique_findings' = Deduplicate(selected)
    /\ idx' = 1
    /\ pc' = "loop"
    /\ UNCHANGED <<dirExists, outputDir, response, dry_run, results, calls, commands, exit_code>>
    /\ UNCHANGED <<fnVars, aggVars>>

RerunNext == Next \/ RunAgain

RerunSpec == InitFrom(FailurePool) /\ [][RerunNext]_vars

\* C24: the results run() returns hold the outcomes of the findings that
\* call processed and nothing else: at no point of a call are there more
\* result entries than unique findings handled in that call
C24_ResultsScopedToCall ==
    /\ TotalEntries = Len(Processed)
    /\ TotalEntries <= Len(unique_findings)

\* ------------------------------------------------------------------------
\* The dashboard's index page served while aggregation runs export
\* ------------------------------------------------------------------------

\* app.py index 127-133: the statistics counted over the findings loaded
IndexStats(fs) ==
    LET count(sev) == Cardinality({i \in 1..Len(fs) : fs[i].severity = sev})
    IN  [total    |-> Len(fs),
         critical |-> count(Capitalize(sCritical)),
         high     |-> count(sHigh),
         medium   |-> count(Capitalize(sMedium)),
         low      |-> count(sLow)]

\* app.py index 136: summary.get('by_severity', {})
SeverityData(loaded) ==
    IF "by_severity" \in DOMAIN loaded THEN loaded.by_severity ELSE EmptyDict

\* app.py index 124: a request arrives and load_latest_findings() returns
IndexLoadFindings ==
    /\ ~(fn_in.op = "app.index" /\ ~fn_out.done)
    /\ fn_in' = [op |-> "app.index"]
    /\ fn_out' = [done |-> FALSE, findings |-> app_load_latest_findings(dirExists, outputDir)]
    /\ UNCHANGED <<remVars, aggVars>>

\* app.py index 125-145: load_latest_summary() returns, the statistics are
\* computed and the page is rendered
IndexRender ==
    /\ fn_in.op = "app.index"
    /\ ~fn_out.done
    /\ LET loaded == app_load_latest_summary(dirExists, outputDir)
       IN  fn_out' = [done          |-> TRUE,
                      findings      |-> fn_out.findings,
                      summary       |-> loaded,
                      stats         |-> IndexStats(fn_out.findings),
                      severity_data |-> SeverityData(loaded)]
    /\ UNCHANGED <<fn_in, remVars, aggVars>>

DashboardNext ==
    \/ Tick
    \/ StartRun
    \/ AggregateFindings
    \/ ExportJson
    \/ ExportCsv
    \/ ExportSummary
    \/ IndexLoadFindings
    \/ IndexRender

DashboardSpec == ExportInit /\ [][DashboardNext]_vars

\* the page has been rendered
IndexRendered == fn_in.op = "app.index" /\ fn_out.done

\* C25: the findings and the summary a rendered index page shows belong to
\* one aggregation run: the summary is the summary of the findings shown
\* (or nothing has been exported and both are empty), also when a run
\* exports while the request is served
C25_IndexPairsOneRun ==
    IndexRendered =>
        IF DOMAIN fn_out.summary = {}
        THEN fn_out.findings = <<>>
        ELSE /\ fn_out.summary = generate_summary(fn_out.findings)
             /\ fn_out.stats.total = fn_out.summary.total_findings

\* ------------------------------------------------------------------------
\* Properties of the Prowler remediation extraction
\* ------------------------------------------------------------------------

\* the text under Remediation.Code.<key>, '' when there is none
CodeField(info, key) ==
    IF /\ IsDict(info)
       /\ "Code" \in DOMAIN info.dict
       /\ IsDict(info.dict.Code)
       /\ key \in DOMAIN info.dict.Code.dict
    THEN info.dict.Code.dict[key]
    ELSE Empty

\* the text under Remediation.Recommendation.Text, '' when there is none
RecommendationText(info) ==
    IF /\ IsDict(info)
       /\ "Recommendation" \in DOMAIN info.dict
       /\ IsDict(info.dict.Recommendation)
       /\ "Text" \in DOMAIN info.dict.Recommendation.dict
    THEN info.dict.Recommendation.dict.Text
    ELSE Empty

\* something is left of the text once it is trimmed
NonBlank(s) == \E i \in 1..Len(s) : s[i] \notin Whitespace

OptionType(info, key, type) == IF NonBlank(CodeField(info, key)) THEN <<T(type)>> ELSE <<>>

ExpectedTypes(info) ==
    OptionType(info, "CLI", "cli")
    \o OptionType(info, "Terraform", "terraform")
    \o OptionType(info, "NativeIaC", "cloudformation")
    \o OptionType(info, "Other", "other")
    \o (IF RecommendationText(info) # Empty THEN <<T("console")>> ELSE <<>>)

TypesOf(options) == [i \in 1..Len(options) |-> options[i].type]

TextKeys ==
    ( "CheckTitle"     :> "title" ) @@
    ( "ResourceArn"    :> "resource_arn" ) @@
    ( "Description"    :> "description" ) @@
    ( "StatusExtended" :> "issue" ) @@
    ( "Risk"           :> "risk" )

NoRemediation == [summary |-> Empty, doc_url |-> Empty, options |-> <<>>]

\* what the claims agree on: the constant fields, the identifier and the
\* resource, and the empty defaults of the fields with no other default
CommonDefaults(check, finding) ==
    /\ finding.source = T("Prowler")
    /\ finding.cloud_provider = T("AWS")
    /\ finding.finding_id = (IF check.CheckID = None THEN T("unknown") ELSE check.CheckID)
    /\ finding.resource = (IF check.ResourceId = None THEN Empty ELSE check.ResourceId)
    /\ check.Region = None => finding.region = Empty
    /\ check.AccountId = None => finding.account_id = Empty
    /\ \A k \in DOMAIN TextKeys :
          finding[TextKeys[k]] = (IF k \in DOMAIN check THEN check[k] ELSE Empty)
    /\ "Compliance" \notin DOMAIN check => finding.compliance = <<>>
    /\ ("Remediation" \notin DOMAIN check \/ ~IsDict(check.Remediation)) =>
          finding.remediation = NoRemediation

\* C27 as stated: the normalizer returns for every incomplete record, with
\* source Prowler, cloud provider AWS, finding_id the CheckID or 'unknown',
\* resource the ResourceId or '', and an empty string or an empty list for
\* every other field that is missing
C27_EmptyDefaultsForMissing ==
    Called("normalize_prowler_finding") =>
        /\ CommonDefaults(fn_in.check, fn_out.value)
        /\ fn_in.check.Severity = None => fn_out.value.severity = Empty
        /\ fn_in.check.Status = None => fn_out.value.status = Empty

\* C27 amended: as above, except that a missing Severity gives Medium and a
\* missing Status gives UNKNOWN; a Remediation that is missing or not a
\* dict gives the remediation with empty summary, doc_url and options
C27_DefaultsForMissing ==
    Called("normalize_prowler_finding") =>
        /\ CommonDefaults(fn_in.check, fn_out.value)
        /\ fn_in.check.Severity = None => fn_out.value.severity = T("Medium")
        /\ fn_in.check.Status = None => fn_out.value.status = T("UNKNOWN")

C27_Witness ==
    /\ Called("normalize_prowler_finding")
    /\ fn_in.check.CheckID = None
    /\ fn_in.check.ResourceId = None
    /\ DOMAIN fn_in.check \cap DOMAIN TextKeys = {"Description"}
    /\ "Compliance" \notin DOMAIN fn_in.check
    /\ "Remediation" \in DOMAIN fn_in.check
    /\ ~IsDict(fn_in.check.Remediation)
    /\ fn_out.value.finding_id = T("unknown")
    /\ fn_out.value.remediation = NoRemediation
    /\ fn_out.value.compliance = <<>>

\* a record without Severity and Status
C27_WitnessSeverityStatus ==
    /\ Called("normalize_prowler_finding")
    /\ fn_in.check.Severity = None
    /\ fn_in.check.Status = None
    /\ fn_out.value.severity = T("Medium")
    /\ fn_out.value.status = T("UNKNOWN")

====
